---- MODULE Spec2Model ----
(***************************************************************************)
(* Worldview validator (validator/src/lib.rs): validate(input) as a state  *)
(* machine over its three passes, and its callers: the validate subcommand *)
(* (cli/src/validate.rs) and the agent's edit_worldview tool               *)
(* (agent/src/main.rs).  A string is a sequence of one-character strings,  *)
(* so that trimming, searching and splitting are computed the way the Rust *)
(* code computes them.                                                     *)
(***************************************************************************)
EXTENDS Integers, Sequences, FiniteSets, TLC

\* one call of validate: its argument, its position, its locals
VARIABLES input, pc, lines, errors, warnings, valid_refs

\* the callers: the worldview file on disk, the parameters and the reply of the
\* last edit_worldview call, the number of calls made, the results returned
VARIABLES file, params, response, calls, seen

caller_vars == <<file, params, response, calls, seen>>

vars == <<input, pc, lines, errors, warnings, valid_refs, file, params, response, calls, seen>>

(***************************************************************************)
(* Bounds of the model.                                                    *)
(***************************************************************************)
MaxLines == 3
MaxRefTokens == 3
MaxEvoTokens == 3
MaxBriefTokens == 3
MaxModTokens == 3

(***************************************************************************)
(* String primitives (Rust str methods used by the validator).             *)
(***************************************************************************)
WhiteSpace == {" ", "\t", "\r", "\n"}

\* mutant: at most four leading spaces are counted (take(4))
RECURSIVE count_leading_spaces_Capped(_)
count_leading_spaces_Capped(s) ==
  IF s = <<>> \/ Head(s) # " " THEN 0
  ELSE LET n == 1 + count_leading_spaces_Capped(Tail(s)) IN IF n > 4 THEN 4 ELSE n

RECURSIVE count_leading_spaces(_)
count_leading_spaces(s) ==
  IF s = <<>> \/ Head(s) # " " THEN 0 ELSE 1 + count_leading_spaces(Tail(s))

RECURSIVE TrimStart(_)
TrimStart(s) ==
  IF s = <<>> \/ Head(s) \notin WhiteSpace THEN s ELSE TrimStart(Tail(s))

RECURSIVE TrimEnd(_)
TrimEnd(s) ==
  IF s = <<>> \/ s[Len(s)] \notin WhiteSpace THEN s
  ELSE TrimEnd(SubSeq(s, 1, Len(s) - 1))

Trim(s) == TrimEnd(TrimStart(s))

\* str::trim_end_matches with a character-set predicate
RECURSIVE TrimEndMatches(_, _)
TrimEndMatches(s, set) ==
  IF s = <<>> \/ s[Len(s)] \notin set THEN s
  ELSE TrimEndMatches(SubSeq(s, 1, Len(s) - 1), set)

StartsWith(s, p) == Len(s) >= Len(p) /\ SubSeq(s, 1, Len(p)) = p

EndsWith(s, p) == Len(s) >= Len(p) /\ SubSeq(s, Len(s) - Len(p) + 1, Len(s)) = p

\* str::find from position `from` (1-based); 0 when there is no match
RECURSIVE FindFrom(_, _, _)
FindFrom(s, p, from) ==
  IF from + Len(p) - 1 > Len(s) THEN 0
  ELSE IF SubSeq(s, from, from + Len(p) - 1) = p THEN from
  ELSE FindFrom(s, p, from + 1)

Find(s, p) == FindFrom(s, p, 1)

Contains(s, p) == Find(s, p) # 0

\* str::match_indices: the non-overlapping matches, left to right
RECURSIVE MatchIndicesFrom(_, _, _)
MatchIndicesFrom(s, p, from) ==
  LET i == FindFrom(s, p, from)
  IN IF i = 0 THEN <<>> ELSE <<i>> \o MatchIndicesFrom(s, p, i + Len(p))

match_indices(s, p) == MatchIndicesFrom(s, p, 1)

\* str::split_whitespace
RECURSIVE SplitWs(_, _)
SplitWs(s, cur) ==
  IF s = <<>> THEN (IF cur = <<>> THEN <<>> ELSE <<cur>>)
  ELSE IF Head(s) \in WhiteSpace
       THEN (IF cur = <<>> THEN <<>> ELSE <<cur>>) \o SplitWs(Tail(s), <<>>)
       ELSE SplitWs(Tail(s), Append(cur, Head(s)))

split_whitespace(s) == SplitWs(s, <<>>)

\* str::lines: split at "\n", a "\r" right before the "\n" is dropped, and a
\* final empty piece after the last "\n" is not a line
RECURSIVE StrLinesFrom(_, _)
StrLinesFrom(s, cur) ==
  IF s = <<>> THEN (IF cur = <<>> THEN <<>> ELSE <<cur>>)
  ELSE IF Head(s) = "\n"
       THEN <<IF cur # <<>> /\ cur[Len(cur)] = "\r"
              THEN SubSeq(cur, 1, Len(cur) - 1) ELSE cur>>
            \o StrLinesFrom(Tail(s), <<>>)
       ELSE StrLinesFrom(Tail(s), Append(cur, Head(s)))

RECURSIVE SplitNewline(_, _)
SplitNewline(s, cur) ==
  IF s = <<>> THEN <<cur>>
  ELSE IF Head(s) = "\n" THEN <<cur>> \o SplitNewline(Tail(s), <<>>)
       ELSE SplitNewline(Tail(s), Append(cur, Head(s)))

\* mutant: split('\n') in place of lines(): a "\r" stays on its line, and the
\* piece after the last "\n" is a line even when it is empty
StrLines_SplitNewline(s) == SplitNewline(s, <<>>)

StrLines(s) == StrLinesFrom(s, <<>>)

(***************************************************************************)
(* Token tables.                                                           *)
(***************************************************************************)
BRIEF_FORMS ==
  << <<"=", ">">>, <<"<", "=">>, <<"<", ">">>, <<">", "<">>,
     <<"~">>, <<"=">>, <<"v", "s">>, <<"/", "/">> >>

operators_by_length ==
  << <<"=", ">">>, <<"<", "=">>, <<"<", ">">>, <<">", "<">>,
     <<"/", "/">>, <<"v", "s">>, <<"~">>, <<"=">> >>

modifier_chars == <<"^", "!", "?", "*">>

EVO_OPEN == <<"[", "<", "=">>

(***************************************************************************)
(* Values of the result.                                                   *)
(***************************************************************************)
\* ValidationError: kind, line, the offending substring (operator, reference,
\* name or modifier; empty when the variant has none) and `found`
Err(kind, line, arg, found) ==
  [kind |-> kind, line |-> line, arg |-> arg, found |-> found]

is_warning(e) == e.kind = "StandaloneModifier"

BriefFormUsage(op, l, r) == [operator |-> op, left_operand |-> l, right_operand |-> r]

ModifierUsage(m, t) == [symbol |-> m, attached_to |-> t]

NoEvolution == [present |-> FALSE, prior_belief |-> <<>>]

NoClaim ==
  [text |-> <<>>, conditions |-> <<>>, sources |-> <<>>, references |-> <<>>,
   brief_forms |-> <<>>, modifiers |-> <<>>, evolution |-> NoEvolution]

LineType(tag, name, claim) == [tag |-> tag, name |-> name, claim |-> claim]

Blank == LineType("Blank", <<>>, NoClaim)

ParsedLine(n, t, raw) == [line_number |-> n, line_type |-> t, raw |-> raw]

(***************************************************************************)
(* Claim parser.                                                           *)
(***************************************************************************)
RECURSIVE Concat(_)
Concat(ss) == IF ss = <<>> THEN <<>> ELSE Head(ss) \o Concat(Tail(ss))

\* mutant: the text before and after the bracketed span is joined with a space
extract_evolution_marker_SpaceJoin(text) ==
  LET start == Find(text, EVO_OPEN)
      end == IF start = 0 THEN 0 ELSE FindFrom(text, <<"]">>, start)
  IN IF start # 0 /\ end # 0
     THEN [text |-> Trim(SubSeq(text, 1, start - 1)) \o <<" ">>
                    \o Trim(SubSeq(text, end + 1, Len(text))),
           evolution |-> [present |-> TRUE,
                          prior_belief |-> Trim(SubSeq(text, start + 3, end - 1))]]
     ELSE [text |-> text, evolution |-> NoEvolution]

\* Extract evolution marker [<= prior belief] from text: <<cleaned, marker>>
extract_evolution_marker(text) ==
  LET start == Find(text, EVO_OPEN)
      end == IF start = 0 THEN 0 ELSE FindFrom(text, <<"]">>, start)
  IN IF start # 0 /\ end # 0
     THEN [text |-> Trim(SubSeq(text, 1, start - 1))
                    \o Trim(SubSeq(text, end + 1, Len(text))),
           evolution |-> [present |-> TRUE,
                          prior_belief |-> Trim(SubSeq(text, start + 3, end - 1))]]
     ELSE [text |-> text, evolution |-> NoEvolution]

MarkerStop == {" ", "|", "@", "&"}

\* mutant: the collection of a source or reference stops at a space only
RECURSIVE CollectEnd_SpaceOnly(_, _)
CollectEnd_SpaceOnly(t, j) ==
  IF j > Len(t) \/ t[j] = " " THEN j ELSE CollectEnd_SpaceOnly(t, j + 1)

\* the position at which the greedy collection of a source or reference stops
RECURSIVE CollectEnd(_, _)
CollectEnd(t, j) ==
  IF j > Len(t) \/ t[j] \in MarkerStop THEN j ELSE CollectEnd(t, j + 1)

ScanInit ==
  [seg |-> <<>>, in_claim |-> TRUE, text |-> <<>>, conditions |-> <<>>,
   sources |-> <<>>, references |-> <<>>]

\* what every marker does first: close the claim text or append a condition
Flush(st) ==
  IF st.in_claim
  THEN [st EXCEPT !.text = Trim(st.seg), !.in_claim = FALSE, !.seg = <<>>]
  ELSE IF Trim(st.seg) # <<>>
       THEN [st EXCEPT !.conditions = Append(@, Trim(st.seg)), !.seg = <<>>]
       ELSE [st EXCEPT !.seg = <<>>]

\* mutant: a source or reference is stored even when nothing was collected
PushToken_KeepBlank(st, field, tok) ==
  IF field = "sources"
  THEN [st EXCEPT !.sources = Append(@, Trim(tok))]
  ELSE [st EXCEPT !.references = Append(@, Trim(tok))]

PushToken(st, field, tok) ==
  IF Trim(tok) = <<>> THEN st
  ELSE IF field = "sources"
       THEN [st EXCEPT !.sources = Append(@, Trim(tok))]
       ELSE [st EXCEPT !.references = Append(@, Trim(tok))]

\* mutant: text left over after a source or reference was collected is dropped
FinishScan_DiscardAfterSource(st) ==
  IF Trim(st.seg) # <<>>
  THEN IF st.in_claim
       THEN [st EXCEPT !.text = Trim(st.seg)]
       ELSE IF st.sources = <<>> /\ st.references = <<>>
            THEN [st EXCEPT !.conditions = Append(@, Trim(st.seg))]
            ELSE st
  ELSE st

\* Handle remaining segment
FinishScan(st) ==
  IF Trim(st.seg) # <<>>
  THEN IF st.in_claim
       THEN [st EXCEPT !.text = Trim(st.seg)]
       ELSE [st EXCEPT !.conditions = Append(@, Trim(st.seg))]
  ELSE st

\* Parse inline elements (|, @, &)
RECURSIVE ScanInline(_, _, _)
ScanInline(t, i, st) ==
  IF i > Len(t) THEN FinishScan(st)
  ELSE LET c == t[i]
       IN CASE c = "|" -> ScanInline(t, i + 1, Flush(st))
            [] c = "@" ->
                 LET j == CollectEnd(t, i + 1)
                 IN ScanInline(t, j, PushToken(Flush(st), "sources", SubSeq(t, i + 1, j - 1)))
            [] c = "&" ->
                 LET j == CollectEnd(t, i + 1)
                 IN ScanInline(t, j, PushToken(Flush(st), "references", SubSeq(t, i + 1, j - 1)))
            [] OTHER -> ScanInline(t, i + 1, [st EXCEPT !.seg = Append(@, c)])

LastToken(s) ==
  LET t == split_whitespace(s) IN IF t = <<>> THEN <<>> ELSE t[Len(t)]

FirstToken(s) ==
  LET t == split_whitespace(s) IN IF t = <<>> THEN <<>> ELSE t[1]

OperandStrip == {"^", "v", "!", "?", "*"}

\* mutant: every '=' counts, whatever stands next to it
RECURSIVE BareEqUsages_AnyEq(_, _)
BareEqUsages_AnyEq(chars, i) ==
  IF i > Len(chars) THEN <<>>
  ELSE LET left == LastToken(SubSeq(chars, 1, i - 1))
           right == FirstToken(SubSeq(chars, i + 1, Len(chars)))
       IN (IF chars[i] = "=" /\ (left # <<>> \/ right # <<>>)
           THEN <<BriefFormUsage(<<"=">>, left, right)>> ELSE <<>>)
          \o BareEqUsages_AnyEq(chars, i + 1)

\* Special handling for = to avoid matching => or <=
RECURSIVE BareEqUsages(_, _)
BareEqUsages(chars, i) ==
  IF i > Len(chars) THEN <<>>
  ELSE LET bare == /\ chars[i] = "="
                   /\ ~(i > 1 /\ chars[i - 1] \in {"<", ">"})
                   /\ ~(i < Len(chars) /\ chars[i + 1] = ">")
           left == LastToken(SubSeq(chars, 1, i - 1))
           right == FirstToken(SubSeq(chars, i + 1, Len(chars)))
       IN (IF bare /\ (left # <<>> \/ right # <<>>)
           THEN <<BriefFormUsage(<<"=">>, left, right)>> ELSE <<>>)
          \o BareEqUsages(chars, i + 1)

\* mutant: an operator is matched only as a whitespace-delimited token
OperatorUsages_WholeTokens(remaining, op) ==
  LET toks == split_whitespace(remaining)
  IN Concat([k \in 1..Len(toks) |->
       IF toks[k] = op
       THEN <<BriefFormUsage(op,
                TrimEndMatches(IF k > 1 THEN toks[k - 1] ELSE <<>>, OperandStrip),
                TrimEndMatches(IF k < Len(toks) THEN toks[k + 1] ELSE <<>>, OperandStrip))>>
       ELSE <<>>])

\* For other operators: one usage per match
OperatorUsages(remaining, op) ==
  LET idxs == match_indices(remaining, op)
  IN [k \in 1..Len(idxs) |->
        BriefFormUsage(op,
          TrimEndMatches(LastToken(SubSeq(remaining, 1, idxs[k] - 1)), OperandStrip),
          TrimEndMatches(FirstToken(SubSeq(remaining, idxs[k] + Len(op), Len(remaining))),
                         OperandStrip))]

\* mutant: "<=" is matched like the other operators, marker or not
UsagesOf_NoSkip(remaining, op) ==
  IF op = <<"=">> THEN BareEqUsages(remaining, 1)
  ELSE OperatorUsages(remaining, op)

UsagesOf(remaining, op) ==
  IF op = <<"<", "=">> /\ Contains(remaining, EVO_OPEN) THEN <<>>
  ELSE IF op = <<"=">> THEN BareEqUsages(remaining, 1)
  ELSE OperatorUsages(remaining, op)

\* Extract brief form usages from claim text
extract_brief_forms(text) ==
  Concat([k \in 1..Len(operators_by_length) |-> UsagesOf(text, operators_by_length[k])])

is_after_operator(prev) ==
  \E k \in 1..Len(BRIEF_FORMS) : EndsWith(prev, BRIEF_FORMS[k])

\* mutant: a standalone glyph is attached to the previous token even when that
\* token ends with an operator
TokenModifiers_AfterOperator(tokens, i) ==
  LET token == tokens[i]
      attached == Concat([k \in 1..Len(modifier_chars) |->
                    IF EndsWith(token, <<modifier_chars[k]>>) /\ Len(token) > 1
                    THEN <<ModifierUsage(modifier_chars[k],
                                         TrimEndMatches(token, {modifier_chars[k]}))>>
                    ELSE <<>>])
      standalone == Concat([k \in 1..Len(modifier_chars) |->
                    IF token = <<modifier_chars[k]>> /\ i > 1
                    THEN <<ModifierUsage(modifier_chars[k],
                             TrimEndMatches(tokens[i - 1], {"^", "!", "?", "*", "v"}))>>
                    ELSE <<>>])
      vmod == IF token = <<"v">> /\ i > 1 /\ ~is_after_operator(tokens[i - 1])
              THEN <<ModifierUsage("v", TrimEndMatches(tokens[i - 1], {"^", "!", "?", "*"}))>>
              ELSE <<>>
  IN attached \o standalone \o vmod

\* mutant: the previous token of a standalone 'v' loses its trailing 'v' too
TokenModifiers_VStripsV(tokens, i) ==
  LET token == tokens[i]
      attached == Concat([k \in 1..Len(modifier_chars) |->
                    IF EndsWith(token, <<modifier_chars[k]>>) /\ Len(token) > 1
                    THEN <<ModifierUsage(modifier_chars[k],
                                         TrimEndMatches(token, {modifier_chars[k]}))>>
                    ELSE <<>>])
      standalone == Concat([k \in 1..Len(modifier_chars) |->
                    IF token = <<modifier_chars[k]>> /\ i > 1
                       /\ ~is_after_operator(tokens[i - 1])
                    THEN <<ModifierUsage(modifier_chars[k],
                             TrimEndMatches(tokens[i - 1], {"^", "!", "?", "*", "v"}))>>
                    ELSE <<>>])
      vmod == IF token = <<"v">> /\ i > 1 /\ ~is_after_operator(tokens[i - 1])
              THEN <<ModifierUsage("v",
                       TrimEndMatches(tokens[i - 1], {"^", "!", "?", "*", "v"}))>>
              ELSE <<>>
  IN attached \o standalone \o vmod

\* the usages one token contributes: attached, standalone, then 'v'
TokenModifiers(tokens, i) ==
  LET token == tokens[i]
      attached == Concat([k \in 1..Len(modifier_chars) |->
                    IF EndsWith(token, <<modifier_chars[k]>>) /\ Len(token) > 1
                    THEN <<ModifierUsage(modifier_chars[k],
                                         TrimEndMatches(token, {modifier_chars[k]}))>>
                    ELSE <<>>])
      standalone == Concat([k \in 1..Len(modifier_chars) |->
                    IF token = <<modifier_chars[k]>> /\ i > 1
                       /\ ~is_after_operator(tokens[i - 1])
                    THEN <<ModifierUsage(modifier_chars[k],
                             TrimEndMatches(tokens[i - 1], {"^", "!", "?", "*", "v"}))>>
                    ELSE <<>>])
      vmod == IF token = <<"v">> /\ i > 1 /\ ~is_after_operator(tokens[i - 1])
              THEN <<ModifierUsage("v", TrimEndMatches(tokens[i - 1], {"^", "!", "?", "*"}))>>
              ELSE <<>>
  IN attached \o standalone \o vmod

\* Extract modifier usages from claim text
extract_modifiers(text) ==
  LET tokens == split_whitespace(text)
  IN Concat([i \in 1..Len(tokens) |-> TokenModifiers(tokens, i)])

\* Parse claim content into structured data
parse_claim(text) ==
  LET ev == extract_evolution_marker(text)
      st == ScanInline(ev.text, 1, ScanInit)
  IN [text |-> st.text, conditions |-> st.conditions, sources |-> st.sources,
      references |-> st.references,
      brief_forms |-> extract_brief_forms(st.text),
      modifiers |-> extract_modifiers(st.text),
      evolution |-> ev.evolution]

(***************************************************************************)
(* Line classifier.                                                        *)
(***************************************************************************)
\* mutant: a 2-space line without the '.' prefix is reported and still typed Facet
tokenize_line_KeepFacet(line, line_number) ==
  LET indent == count_leading_spaces(line)
      content == Trim(line)
  IN IF Trim(line) = <<>> THEN [type |-> Blank, errs |-> <<>>]
     ELSE CASE indent = 0 ->
                 IF content = <<>>
                 THEN [type |-> Blank,
                       errs |-> <<Err("EmptyConceptName", line_number, <<>>, 0)>>]
                 ELSE [type |-> LineType("Concept", content, NoClaim), errs |-> <<>>]
            [] indent = 2 ->
                 IF ~StartsWith(content, <<".">>)
                 THEN [type |-> LineType("Facet", content, NoClaim),
                       errs |-> <<Err("MissingFacetPrefix", line_number, <<>>, 0)>>]
                 ELSE LET name == Trim(Tail(content))
                      IN [type |-> LineType("Facet", name, NoClaim),
                          errs |-> IF name = <<>>
                                   THEN <<Err("EmptyFacetName", line_number, <<>>, 0)>>
                                   ELSE <<>>]
            [] indent = 4 ->
                 IF ~StartsWith(content, <<"-">>)
                 THEN [type |-> Blank,
                       errs |-> <<Err("MissingClaimPrefix", line_number, <<>>, 0)>>]
                 ELSE [type |-> LineType("Claim", <<>>, parse_claim(Trim(Tail(content)))),
                       errs |-> <<>>]
            [] OTHER ->
                 [type |-> Blank,
                  errs |-> IF indent = 1 \/ indent = 3
                           THEN <<Err("InvalidIndentation", line_number, <<>>, indent)>>
                           ELSE <<Err("UnexpectedIndentation", line_number, <<>>, indent)>>]

\* mutant: a facet line with an empty name is reported and typed Blank, as an
\* empty concept name is
tokenize_line_BlankEmptyFacet(line, line_number) ==
  LET indent == count_leading_spaces(line)
      content == Trim(line)
  IN IF Trim(line) = <<>> THEN [type |-> Blank, errs |-> <<>>]
     ELSE CASE indent = 0 ->
                 IF content = <<>>
                 THEN [type |-> Blank,
                       errs |-> <<Err("EmptyConceptName", line_number, <<>>, 0)>>]
                 ELSE [type |-> LineType("Concept", content, NoClaim), errs |-> <<>>]
            [] indent = 2 ->
                 IF ~StartsWith(content, <<".">>)
                 THEN [type |-> Blank,
                       errs |-> <<Err("MissingFacetPrefix", line_number, <<>>, 0)>>]
                 ELSE LET name == Trim(Tail(content))
                      IN IF name = <<>>
                         THEN [type |-> Blank,
                               errs |-> <<Err("EmptyFacetName", line_number, <<>>, 0)>>]
                         ELSE [type |-> LineType("Facet", name, NoClaim), errs |-> <<>>]
            [] indent = 4 ->
                 IF ~StartsWith(content, <<"-">>)
                 THEN [type |-> Blank,
                       errs |-> <<Err("MissingClaimPrefix", line_number, <<>>, 0)>>]
                 ELSE [type |-> LineType("Claim", <<>>, parse_claim(Trim(Tail(content)))),
                       errs |-> <<>>]
            [] OTHER ->
                 [type |-> Blank,
                  errs |-> IF indent = 1 \/ indent = 3
                           THEN <<Err("InvalidIndentation", line_number, <<>>, indent)>>
                           ELSE <<Err("UnexpectedIndentation", line_number, <<>>, indent)>>]

\* Tokenize a single line: <<line type, errors recorded>>
tokenize_line(line, line_number) ==
  LET indent == count_leading_spaces(line)
      content == Trim(line)
  IN IF Trim(line) = <<>> THEN [type |-> Blank, errs |-> <<>>]
     ELSE CASE indent = 0 ->
                 IF content = <<>>
                 THEN [type |-> Blank,
                       errs |-> <<Err("EmptyConceptName", line_number, <<>>, 0)>>]
                 ELSE [type |-> LineType("Concept", content, NoClaim), errs |-> <<>>]
            [] indent = 2 ->
                 IF ~StartsWith(content, <<".">>)
                 THEN [type |-> Blank,
                       errs |-> <<Err("MissingFacetPrefix", line_number, <<>>, 0)>>]
                 ELSE LET name == Trim(Tail(content))
                      IN [type |-> LineType("Facet", name, NoClaim),
                          errs |-> IF name = <<>>
                                   THEN <<Err("EmptyFacetName", line_number, <<>>, 0)>>
                                   ELSE <<>>]
            [] indent = 4 ->
                 IF ~StartsWith(content, <<"-">>)
                 THEN [type |-> Blank,
                       errs |-> <<Err("MissingClaimPrefix", line_number, <<>>, 0)>>]
                 ELSE [type |-> LineType("Claim", <<>>, parse_claim(Trim(Tail(content)))),
                       errs |-> <<>>]
            [] OTHER ->
                 [type |-> Blank,
                  errs |-> IF indent = 1 \/ indent = 3
                           THEN <<Err("InvalidIndentation", line_number, <<>>, indent)>>
                           ELSE <<Err("UnexpectedIndentation", line_number, <<>>, indent)>>]

(***************************************************************************)
(* Reference index builder.                                                *)
(***************************************************************************)
\* format!("{}.{}", concept, name)
RefKey(concept, name) == concept \o <<".">> \o name

\* Collect all valid Concept.facet reference targets from the document
RECURSIVE CollectFrom(_, _, _, _)
CollectFrom(ls, i, current_concept, refs) ==
  IF i > Len(ls) THEN refs
  ELSE LET t == ls[i].line_type
       IN CASE t.tag = "Concept" ->
                 CollectFrom(ls, i + 1, [some |-> TRUE, name |-> t.name], refs)
            [] t.tag = "Facet" ->
                 CollectFrom(ls, i + 1, current_concept,
                   IF current_concept.some
                   THEN refs \cup {RefKey(current_concept.name, t.name)}
                   ELSE refs)
            [] OTHER -> CollectFrom(ls, i + 1, current_concept, refs)

collect_valid_references(ls) ==
  CollectFrom(ls, 1, [some |-> FALSE, name |-> <<>>], {})

(***************************************************************************)
(* Structural validator.                                                   *)
(***************************************************************************)
None == [some |-> FALSE, line |-> 0, name |-> <<>>]

Some(line, name) == [some |-> TRUE, line |-> line, name |-> name]

StructInit ==
  [current_concept |-> None, current_facet |-> None,
   concept_has_facet |-> FALSE, facet_has_claim |-> FALSE, errs |-> <<>>]

\* Check previous concept had facets
CheckConcept(st) ==
  IF st.current_concept.some /\ ~st.concept_has_facet
  THEN <<Err("ConceptWithoutFacets", st.current_concept.line, st.current_concept.name, 0)>>
  ELSE <<>>

\* Check previous facet had claims
CheckFacet(st) ==
  IF st.current_facet.some /\ ~st.facet_has_claim
  THEN <<Err("FacetWithoutClaims", st.current_facet.line, st.current_facet.name, 0)>>
  ELSE <<>>

\* mutant: the has-facet flag of the previous concept is carried over
OnConcept_NoReset(st, ln) ==
  [current_concept |-> Some(ln.line_number, ln.line_type.name),
   current_facet |-> None,
   concept_has_facet |-> st.concept_has_facet,
   facet_has_claim |-> FALSE,
   errs |-> st.errs \o CheckConcept(st) \o CheckFacet(st)]

\* mutant: entering a concept leaves the current facet in place
OnConcept_KeepFacet(st, ln) ==
  [current_concept |-> Some(ln.line_number, ln.line_type.name),
   current_facet |-> st.current_facet,
   concept_has_facet |-> FALSE,
   facet_has_claim |-> st.facet_has_claim,
   errs |-> st.errs \o CheckConcept(st) \o CheckFacet(st)]

OnConcept(st, ln) ==
  [current_concept |-> Some(ln.line_number, ln.line_type.name),
   current_facet |-> None,
   concept_has_facet |-> FALSE,
   facet_has_claim |-> FALSE,
   errs |-> st.errs \o CheckConcept(st) \o CheckFacet(st)]

\* mutant: the has-claim flag of the previous facet is carried over
OnFacet_NoReset(st, ln) ==
  [current_concept |-> st.current_concept,
   current_facet |-> Some(ln.line_number, ln.line_type.name),
   concept_has_facet |-> IF st.current_concept.some THEN TRUE ELSE st.concept_has_facet,
   facet_has_claim |-> st.facet_has_claim,
   errs |-> st.errs
            \o (IF ~st.current_concept.some
                THEN <<Err("OrphanFacet", ln.line_number, <<>>, 0)>> ELSE <<>>)
            \o CheckFacet(st)]

\* mutant: a facet counts as orphan only while no facet has been seen either
OnFacet_OrphanOnce(st, ln) ==
  [current_concept |-> st.current_concept,
   current_facet |-> Some(ln.line_number, ln.line_type.name),
   concept_has_facet |-> IF st.current_concept.some THEN TRUE ELSE st.concept_has_facet,
   facet_has_claim |-> FALSE,
   errs |-> st.errs
            \o (IF ~st.current_concept.some /\ ~st.current_facet.some
                THEN <<Err("OrphanFacet", ln.line_number, <<>>, 0)>> ELSE <<>>)
            \o CheckFacet(st)]

OnFacet(st, ln) ==
  [current_concept |-> st.current_concept,
   current_facet |-> Some(ln.line_number, ln.line_type.name),
   concept_has_facet |-> IF st.current_concept.some THEN TRUE ELSE st.concept_has_facet,
   facet_has_claim |-> FALSE,
   errs |-> st.errs
            \o (IF ~st.current_concept.some
                THEN <<Err("OrphanFacet", ln.line_number, <<>>, 0)>> ELSE <<>>)
            \o CheckFacet(st)]

\* mutant: a claim with an empty text does not count as a child of its facet
OnClaim_IgnoreEmptyText(st, ln) ==
  IF ~st.current_facet.some
  THEN [st EXCEPT !.errs = Append(@, Err("OrphanClaim", ln.line_number, <<>>, 0))]
  ELSE IF ln.line_type.claim.text = <<>> THEN st
  ELSE [st EXCEPT !.facet_has_claim = TRUE]

OnClaim(st, ln) ==
  IF ~st.current_facet.some
  THEN [st EXCEPT !.errs = Append(@, Err("OrphanClaim", ln.line_number, <<>>, 0))]
  ELSE [st EXCEPT !.facet_has_claim = TRUE]

\* Check final concept and facet
StructEnd(st) == st.errs \o CheckConcept(st) \o CheckFacet(st)

RECURSIVE StructFrom(_, _, _)
StructFrom(ls, i, st) ==
  IF i > Len(ls) THEN StructEnd(st)
  ELSE LET ln == ls[i]
       IN CASE ln.line_type.tag = "Blank" -> StructFrom(ls, i + 1, st)
            [] ln.line_type.tag = "Concept" -> StructFrom(ls, i + 1, OnConcept(st, ln))
            [] ln.line_type.tag = "Facet" -> StructFrom(ls, i + 1, OnFacet(st, ln))
            [] OTHER -> StructFrom(ls, i + 1, OnClaim(st, ln))

\* Validate document structure: the errors it appends
validate_structure(ls) == StructFrom(ls, 1, StructInit)

(***************************************************************************)
(* Claim syntax validator.                                                 *)
(***************************************************************************)
EmptyClaimTextErrors(n, claim) ==
  IF claim.text = <<>> THEN <<Err("EmptyClaimText", n, <<>>, 0)>> ELSE <<>>

\* one error of this kind per empty entry of seq
EmptyEntries(seq, kind, n) ==
  Concat([k \in 1..Len(seq) |->
    IF seq[k] = <<>> THEN <<Err(kind, n, <<>>, 0)>> ELSE <<>>])

EmptyElementErrors(n, claim) ==
  EmptyEntries(claim.conditions, "EmptyCondition", n)
  \o EmptyEntries(claim.sources, "EmptySource", n)
  \o EmptyEntries(claim.references, "EmptyReference", n)

\* Validate reference format (should be Concept.facet)
ReferenceFormatErrors(n, claim) ==
  Concat([k \in 1..Len(claim.references) |->
    LET r == claim.references[k]
    IN IF r # <<>> /\ ~Contains(r, <<".">>)
       THEN <<Err("InvalidReferenceFormat", n, r, 0)>> ELSE <<>>])

\* mutant: the undefined-reference check forgets that the format check
\* already covers references without a '.'
UndefinedReferenceErrors_NoDotTest(n, claim, refs) ==
  Concat([k \in 1..Len(claim.references) |->
    LET r == claim.references[k]
    IN IF r # <<>> /\ r \notin refs
       THEN <<Err("UndefinedReference", n, r, 0)>> ELSE <<>>])

\* Validate references point to existing concept.facet pairs
UndefinedReferenceErrors(n, claim, refs) ==
  Concat([k \in 1..Len(claim.references) |->
    LET r == claim.references[k]
    IN IF r # <<>> /\ Contains(r, <<".">>) /\ r \notin refs
       THEN <<Err("UndefinedReference", n, r, 0)>> ELSE <<>>])

\* Validate brief forms have operands
BriefFormErrors(n, claim) ==
  Concat([k \in 1..Len(claim.brief_forms) |->
    LET bf == claim.brief_forms[k]
    IN (IF bf.left_operand = <<>>
        THEN <<Err("BriefFormMissingLeftOperand", n, bf.operator, 0)>> ELSE <<>>)
       \o (IF bf.right_operand = <<>>
           THEN <<Err("BriefFormMissingRightOperand", n, bf.operator, 0)>> ELSE <<>>)])

\* Check for unclosed evolution markers, then the marker's content
EvolutionErrors(n, claim) ==
  (IF Contains(claim.text, EVO_OPEN) /\ ~Contains(claim.text, <<"]">>)
   THEN <<Err("UnclosedEvolutionMarker", n, <<>>, 0)>> ELSE <<>>)
  \o (IF claim.evolution.present /\ claim.evolution.prior_belief = <<>>
      THEN <<Err("EmptyEvolutionMarker", n, <<>>, 0)>> ELSE <<>>)

\* mutant: only a modifier at the start is warned about
StandaloneModifierWarnings_FirstOnly(n, claim) ==
  LET tokens == split_whitespace(claim.text)
  IN Concat([i \in 1..Len(tokens) |->
       IF tokens[i] \in {<<"^">>, <<"!">>, <<"?">>, <<"*">>} /\ i = 1
       THEN <<Err("StandaloneModifier", n, tokens[i], 0)>> ELSE <<>>])

\* Check for standalone modifiers (warning, not error)
StandaloneModifierWarnings(n, claim) ==
  LET tokens == split_whitespace(claim.text)
  IN Concat([i \in 1..Len(tokens) |->
       IF tokens[i] \in {<<"^">>, <<"!">>, <<"?">>, <<"*">>}
          /\ (i = 1 \/ is_after_operator(tokens[i - 1]))
       THEN <<Err("StandaloneModifier", n, tokens[i], 0)>> ELSE <<>>])

\* mutant: the standalone-modifier findings are pushed to the error sink
validate_claim_syntax_WarnAsError(n, claim, refs) ==
  [errs |-> EmptyClaimTextErrors(n, claim)
            \o EmptyElementErrors(n, claim)
            \o ReferenceFormatErrors(n, claim)
            \o UndefinedReferenceErrors(n, claim, refs)
            \o BriefFormErrors(n, claim)
            \o EvolutionErrors(n, claim)
            \o StandaloneModifierWarnings(n, claim),
   warns |-> <<>>]

\* Validate claim syntax: what it appends to errors and to warnings
validate_claim_syntax(n, claim, refs) ==
  [errs |-> EmptyClaimTextErrors(n, claim)
            \o EmptyElementErrors(n, claim)
            \o ReferenceFormatErrors(n, claim)
            \o UndefinedReferenceErrors(n, claim, refs)
            \o BriefFormErrors(n, claim)
            \o EvolutionErrors(n, claim),
   warns |-> StandaloneModifierWarnings(n, claim)]

is_valid == errors = <<>>

has_warnings == warnings # <<>>

(***************************************************************************)
(* validate(input): the passes as steps.                                   *)
(***************************************************************************)
\* validate as a function of its text: the result the steps below build
validate(text) ==
  LET raw == StrLines(text)
      tok == [i \in 1..Len(raw) |-> tokenize_line(raw[i], i)]
      ls == [i \in 1..Len(raw) |-> ParsedLine(i, tok[i].type, raw[i])]
      refs == collect_valid_references(ls)
      res == [i \in 1..Len(ls) |->
                IF ls[i].line_type.tag = "Claim"
                THEN validate_claim_syntax(ls[i].line_number, ls[i].line_type.claim, refs)
                ELSE [errs |-> <<>>, warns |-> <<>>]]
  IN [errors |-> Concat([i \in 1..Len(raw) |-> tok[i].errs])
                 \o validate_structure(ls)
                 \o Concat([i \in 1..Len(ls) |-> res[i].errs]),
      warnings |-> Concat([i \in 1..Len(ls) |-> res[i].warns]),
      lines |-> ls]

\* mutant: the sinks are kept from one call to the next, as statics would be
Tokenize_KeepLocals ==
  /\ pc = "start"
  /\ LET raw == StrLines(input)
         tok == [i \in 1..Len(raw) |-> tokenize_line(raw[i], i)]
     IN /\ lines' = [i \in 1..Len(raw) |-> ParsedLine(i, tok[i].type, raw[i])]
        /\ errors' = errors \o Concat([i \in 1..Len(raw) |-> tok[i].errs])
  /\ pc' = "tokenized"
  /\ UNCHANGED <<input, warnings, valid_refs, caller_vars>>

\* The locals are created empty; first pass: tokenize lines
Tokenize ==
  /\ pc = "start"
  /\ LET raw == StrLines(input)
         tok == [i \in 1..Len(raw) |-> tokenize_line(raw[i], i)]
     IN /\ lines' = [i \in 1..Len(raw) |-> ParsedLine(i, tok[i].type, raw[i])]
        /\ errors' = Concat([i \in 1..Len(raw) |-> tok[i].errs])
  /\ warnings' = <<>>
  /\ valid_refs' = {}
  /\ pc' = "tokenized"
  /\ UNCHANGED <<input, caller_vars>>

\* Collect valid Concept.facet pairs for reference validation
CollectReferences ==
  /\ pc = "tokenized"
  /\ valid_refs' = collect_valid_references(lines)
  /\ pc' = "indexed"
  /\ UNCHANGED <<input, lines, errors, warnings, caller_vars>>

\* mutant: the structural errors are put in front of the errors already recorded
ValidateStructure_Prepend ==
  /\ pc = "indexed"
  /\ errors' = validate_structure(lines) \o errors
  /\ pc' = "structured"
  /\ UNCHANGED <<input, lines, warnings, valid_refs, caller_vars>>

\* Second pass: validate structure
ValidateStructure ==
  /\ pc = "indexed"
  /\ errors' = errors \o validate_structure(lines)
  /\ pc' = "structured"
  /\ UNCHANGED <<input, lines, warnings, valid_refs, caller_vars>>

\* mutant: single-pass resolution, each claim checked against the pairs
\* declared above it
ValidateClaims_SinglePass ==
  /\ pc = "structured"
  /\ LET res == [i \in 1..Len(lines) |->
                   IF lines[i].line_type.tag = "Claim"
                   THEN validate_claim_syntax(lines[i].line_number,
                          lines[i].line_type.claim,
                          collect_valid_references(SubSeq(lines, 1, i)))
                   ELSE [errs |-> <<>>, warns |-> <<>>]]
     IN /\ errors' = errors \o Concat([i \in 1..Len(lines) |-> res[i].errs])
        /\ warnings' = warnings \o Concat([i \in 1..Len(lines) |-> res[i].warns])
  /\ pc' = "done"
  /\ UNCHANGED <<input, lines, valid_refs, caller_vars>>

\* mutant: a claim line already reported as an orphan is not checked further
ValidateClaims_SkipOrphans ==
  /\ pc = "structured"
  /\ LET res == [i \in 1..Len(lines) |->
                   IF lines[i].line_type.tag = "Claim"
                      /\ ~\E k \in DOMAIN errors :
                            errors[k].kind = "OrphanClaim" /\ errors[k].line = i
                   THEN validate_claim_syntax(lines[i].line_number,
                                              lines[i].line_type.claim, valid_refs)
                   ELSE [errs |-> <<>>, warns |-> <<>>]]
     IN /\ errors' = errors \o Concat([i \in 1..Len(lines) |-> res[i].errs])
        /\ warnings' = warnings \o Concat([i \in 1..Len(lines) |-> res[i].warns])
  /\ pc' = "done"
  /\ UNCHANGED <<input, lines, valid_refs, caller_vars>>

\* Third pass: validate claim syntax of every Claim line, in line order
ValidateClaims ==
  /\ pc = "structured"
  /\ LET res == [i \in 1..Len(lines) |->
                   IF lines[i].line_type.tag = "Claim"
                   THEN validate_claim_syntax(lines[i].line_number,
                                              lines[i].line_type.claim, valid_refs)
                   ELSE [errs |-> <<>>, warns |-> <<>>]]
     IN /\ errors' = errors \o Concat([i \in 1..Len(lines) |-> res[i].errs])
        /\ warnings' = warnings \o Concat([i \in 1..Len(lines) |-> res[i].warns])
  /\ pc' = "done"
  /\ UNCHANGED <<input, lines, valid_refs, caller_vars>>

Next == Tokenize \/ CollectReferences \/ ValidateStructure \/ ValidateClaims

(***************************************************************************)
(* Inputs.                                                                 *)
(***************************************************************************)
SeqsUpTo(S, n) == UNION {[1..k -> S] : k \in 0..n}

RECURSIVE JoinWith(_, _)
JoinWith(ss, sep) ==
  IF ss = <<>> THEN <<>>
  ELSE IF Len(ss) = 1 THEN ss[1]
  ELSE ss[1] \o sep \o JoinWith(Tail(ss), sep)

\* no worldview file on disk
NoFile == [exists |-> FALSE, content |-> <<>>]

\* no edit_worldview call made yet
NoParams == [has_edits |-> FALSE, edits |-> <<>>]

\* the reply of a tool call: what was answered and, for an edit that failed,
\* which edit (1-based)
Response(kind, edit) == [kind |-> kind, edit |-> edit]

NoResponse == Response("none", 0)

InitOf(inputs) ==
  /\ input \in inputs
  /\ pc = "start"
  /\ lines = <<>>
  /\ errors = <<>>
  /\ warnings = <<>>
  /\ valid_refs = {}
  /\ file = NoFile
  /\ params = NoParams
  /\ response = NoResponse
  /\ calls = 0
  /\ seen = {}

\* lines of every kind the classifier tells apart: ""; "A"; "B"; "  .f"; "  .g"; "  ."; "  f"; "   x"; "    - x"; "    - x &A.f"; "    - y &B.g"; "    - ^ x"
StructLines ==
  {
    <<>>,
    <<"A">>,
    <<"B">>,
    <<" ", " ", ".", "f">>,
    <<" ", " ", ".", "g">>,
    <<" ", " ", ".">>,
    <<" ", " ", "f">>,
    <<" ", " ", " ", "x">>,
    <<" ", " ", " ", " ", "-", " ", "x">>,
    <<" ", " ", " ", " ", "-", " ", "x", " ", "&", "A", ".", "f">>,
    <<" ", " ", " ", " ", "-", " ", "y", " ", "&", "B", ".", "g">>,
    <<" ", " ", " ", " ", "-", " ", "^", " ", "x">> }

\* documents of up to MaxLines lines, joined by newlines
StructInputs == {JoinWith(d, <<"\n">>) : d \in SeqsUpTo(StructLines, MaxLines)}

Init == InitOf(StructInputs)

Spec == Init /\ [][Next]_vars

(***************************************************************************)
(* Properties of the structural validator and the reference index.         *)
(***************************************************************************)
Done == pc = "done"

StructureChecked == pc \in {"structured", "done"}

Tag(i) == lines[i].line_type.tag

NameOf(i) == lines[i].line_type.name

\* how many recorded errors are equal to e
CountErr(e) == Cardinality({k \in DOMAIN errors : errors[k] = e})

\* how many recorded errors have this kind and line, whatever they carry
CountKindAt(kind, n) ==
  Cardinality({k \in DOMAIN errors : errors[k].kind = kind /\ errors[k].line = n})

\* the lines after i up to (excluding) the next line whose tag is in stop
Below(i, stop) ==
  {j \in DOMAIN lines : j > i /\ \A m \in (i + 1)..j : Tag(m) \notin stop}

\* the nearest line before i whose tag is in tags; 0 when there is none
NearestBefore(i, tags) ==
  IF \E j \in 1..(i - 1) : Tag(j) \in tags
  THEN CHOOSE j \in 1..(i - 1) :
         Tag(j) \in tags /\ \A m \in (j + 1)..(i - 1) : Tag(m) \notin tags
  ELSE 0

\* C1: every Concept line gets exactly one ConceptWithoutFacets, with its own
\* line number and name, when no Facet line lies between it and the next
\* Concept line (or the end of input), and none otherwise.
C1_ConceptWithoutFacets ==
  StructureChecked =>
    \A i \in DOMAIN lines :
      Tag(i) = "Concept" =>
        LET childless == \A j \in Below(i, {"Concept"}) : Tag(j) # "Facet"
            expected == IF childless THEN 1 ELSE 0
        IN /\ CountErr(Err("ConceptWithoutFacets", i, NameOf(i), 0)) = expected
           /\ CountKindAt("ConceptWithoutFacets", i) = expected

C1_Witness ==
  /\ Done
  /\ \E i \in DOMAIN lines :
       /\ i + 2 \in DOMAIN lines
       /\ Tag(i) = "Concept" /\ Tag(i + 1) = "Concept" /\ Tag(i + 2) = "Facet"
       /\ CountKindAt("ConceptWithoutFacets", i) = 1
       /\ CountKindAt("ConceptWithoutFacets", i + 1) = 0

\* C2: every Facet line, orphan or not, gets exactly one FacetWithoutClaims at
\* its own line number when no Claim line lies between it and the next Facet or
\* Concept line (or the end of input), and none otherwise.
C2_FacetWithoutClaims ==
  StructureChecked =>
    \A i \in DOMAIN lines :
      Tag(i) = "Facet" =>
        LET childless == \A j \in Below(i, {"Concept", "Facet"}) : Tag(j) # "Claim"
            expected == IF childless THEN 1 ELSE 0
        IN /\ CountErr(Err("FacetWithoutClaims", i, NameOf(i), 0)) = expected
           /\ CountKindAt("FacetWithoutClaims", i) = expected

C2_Witness ==
  /\ Done
  /\ \E i \in DOMAIN lines :
       /\ i + 2 \in DOMAIN lines
       /\ Tag(i) = "Facet" /\ Tag(i + 1) = "Facet" /\ Tag(i + 2) = "Claim"
       /\ CountKindAt("FacetWithoutClaims", i) = 1
       /\ CountKindAt("FacetWithoutClaims", i + 1) = 0
       /\ CountKindAt("OrphanFacet", i) = 1

\* C3: a Claim line gets exactly one OrphanClaim iff no Facet line lies between
\* it and the nearest preceding Concept line (or the start of the document).
C3_OrphanClaim ==
  StructureChecked =>
    \A i \in DOMAIN lines :
      Tag(i) = "Claim" =>
        LET c == NearestBefore(i, {"Concept"})
            orphan == \A j \in (c + 1)..(i - 1) : Tag(j) # "Facet"
        IN CountKindAt("OrphanClaim", i) = IF orphan THEN 1 ELSE 0

C3_Witness ==
  /\ Done
  /\ \E i \in DOMAIN lines :
       /\ i + 2 \in DOMAIN lines
       /\ Tag(i) = "Facet" /\ Tag(i + 1) = "Concept" /\ Tag(i + 2) = "Claim"
       /\ CountKindAt("OrphanClaim", i + 2) = 1

\* C4: a Facet line gets exactly one OrphanFacet iff no Concept line precedes
\* it anywhere in the document.
C4_OrphanFacet ==
  StructureChecked =>
    \A i \in DOMAIN lines :
      Tag(i) = "Facet" =>
        CountKindAt("OrphanFacet", i) =
          IF \E j \in 1..(i - 1) : Tag(j) = "Concept" THEN 0 ELSE 1

C4_Witness ==
  /\ Done
  /\ \E i \in DOMAIN lines :
       /\ i + 2 \in DOMAIN lines
       /\ Tag(i) = "Facet" /\ Tag(i + 1) = "Concept" /\ Tag(i + 2) = "Facet"
       /\ CountKindAt("OrphanFacet", i) = 1
       /\ CountKindAt("OrphanFacet", i + 2) = 0

\* the Concept.Facet pairs the document declares
DeclaredPairs ==
  {NameOf(NearestBefore(f, {"Concept"})) \o <<".">> \o NameOf(f) :
     f \in {i \in DOMAIN lines : Tag(i) = "Facet" /\ NearestBefore(i, {"Concept"}) # 0}}

HasDot(r) == \E k \in DOMAIN r : r[k] = "."

RefsOf(i) == lines[i].line_type.claim.references

\* C5: the reference index is exactly the set of "C.F" with F a Facet line and
\* C its nearest preceding Concept line; it is complete before any claim is
\* checked, so a dotted reference is undefined iff no line of the whole
\* document, before or after the claim, declares it.
C5_ReferenceIndex ==
  /\ pc \in {"indexed", "structured", "done"} => valid_refs = DeclaredPairs
  /\ ~Done => \A k \in DOMAIN errors : errors[k].kind # "UndefinedReference"
  /\ Done =>
       \A i \in DOMAIN lines :
         Tag(i) = "Claim" =>
           \A k \in DOMAIN RefsOf(i) :
             HasDot(RefsOf(i)[k]) =>
               (CountErr(Err("UndefinedReference", i, RefsOf(i)[k], 0)) > 0
                  <=> RefsOf(i)[k] \notin DeclaredPairs)

\* a claim references a pair that is declared only further down, and is accepted
C5_Witness ==
  /\ Done
  /\ \E i \in DOMAIN lines :
       /\ Tag(i) = "Claim" /\ RefsOf(i) # <<>>
       /\ RefsOf(i)[1] \in valid_refs
       /\ \A f \in 1..i : Tag(f) # "Facet"
       /\ CountKindAt("UndefinedReference", i) = 0

\* C10: is_valid() holds iff errors is empty, every warning is a
\* StandaloneModifier and no error is one; warnings never make a result invalid.
C10_WarningsApart ==
  Done =>
    /\ is_valid <=> Len(errors) = 0
    /\ \A k \in DOMAIN warnings : is_warning(warnings[k])
    /\ \A k \in DOMAIN errors : ~is_warning(errors[k])
    /\ is_valid <=> \A k \in DOMAIN (errors \o warnings) : is_warning((errors \o warnings)[k])

C10_Witness == Done /\ is_valid /\ has_warnings /\ Len(lines) = 3

(***************************************************************************)
(* Claim lines: a claim body built from tokens, under concept A, facet f.  *)
(***************************************************************************)
L_A == <<"A">>

L_f == <<" ", " ", ".", "f">>

L_C == <<"C">>

L_h == <<" ", " ", ".", "h">>

ClaimPrefix == <<" ", " ", " ", " ", "-", " ">>

\* A / .f / the claim built from the tokens / the lines of tail
ClaimInputs(tokens, n, tail) ==
  {JoinWith(<<L_A, L_f, ClaimPrefix \o JoinWith(t, <<" ">>)>> \o tail, <<"\n">>) :
     t \in SeqsUpTo(tokens, n)}

\* a word, references (declared above, undeclared, declared below, without a dot, empty, a lone dot, two adjacent), a condition marker, a source
RefTokens ==
  {
    <<"x">>,
    <<"&", "A", ".", "f">>,
    <<"&", "B", ".", "g">>,
    <<"&", "C", ".", "h">>,
    <<"&", "n">>,
    <<"&">>,
    <<"&", ".">>,
    <<"|">>,
    <<"@", "s">>,
    <<"&", "A", ".", "f", "&", "n">> }

\* the claim is followed by the declaration of C.h
RefInputs == ClaimInputs(RefTokens, MaxRefTokens, <<L_C, L_h, ClaimPrefix \o <<"x">>>>)

InitRef == InitOf(RefInputs)

SpecRef == InitRef /\ [][Next]_vars

\* how often r occurs among the references collected on line i
Occurrences(i, r) == Cardinality({k \in DOMAIN RefsOf(i) : RefsOf(i)[k] = r})

\* C6: per reference token of a claim line: without a '.', exactly one
\* InvalidReferenceFormat and no UndefinedReference; with a '.' and not in the
\* index, exactly one UndefinedReference and no InvalidReferenceFormat; in the
\* index, neither.  No such error names anything but a collected reference.
C6_ReferenceErrors ==
  Done =>
    /\ \A i \in DOMAIN lines :
         Tag(i) = "Claim" =>
           \A k \in DOMAIN RefsOf(i) :
             LET r == RefsOf(i)[k]
                 fmt == CountErr(Err("InvalidReferenceFormat", i, r, 0))
                 und == CountErr(Err("UndefinedReference", i, r, 0))
             IN CASE ~HasDot(r) -> fmt = Occurrences(i, r) /\ und = 0
                  [] HasDot(r) /\ r \notin valid_refs -> und = Occurrences(i, r) /\ fmt = 0
                  [] OTHER -> fmt = 0 /\ und = 0
    /\ \A k \in DOMAIN errors :
         errors[k].kind \in {"InvalidReferenceFormat", "UndefinedReference"} =>
           /\ errors[k].line \in DOMAIN lines
           /\ Tag(errors[k].line) = "Claim"
           /\ Occurrences(errors[k].line, errors[k].arg) > 0

\* one claim with a dotless, an undeclared and a forward-declared reference
C6_Witness ==
  /\ Done
  /\ Len(lines) = 6 /\ Tag(3) = "Claim"
  /\ \E a, b, c \in DOMAIN RefsOf(3) :
       /\ ~HasDot(RefsOf(3)[a])
       /\ HasDot(RefsOf(3)[b]) /\ RefsOf(3)[b] \notin valid_refs
       /\ RefsOf(3)[c] = <<"C", ".", "h">>
  /\ CountKindAt("InvalidReferenceFormat", 3) = 1
  /\ CountKindAt("UndefinedReference", 3) = 1

(***************************************************************************)
(* Evolution markers.                                                      *)
(***************************************************************************)
\* a word, the marker open, a closing bracket alone and after a word, a condition marker, a source, the caused-by operator
EvoTokens ==
  {
    <<"x">>,
    <<"[", "<", "=">>,
    <<"]">>,
    <<"y", "]">>,
    <<"|">>,
    <<"@", "s">>,
    <<"<", "=">> }

EvoInputs == ClaimInputs(EvoTokens, MaxEvoTokens, <<>>)

InitEvo == InitOf(EvoInputs)

SpecEvo == InitEvo /\ [][Next]_vars

\* the claim body of line i: the raw line trimmed, its '-' prefix removed, trimmed
BodyOf(i) == Trim(Tail(Trim(lines[i].raw)))

\* some "[<=" of s has no ']' anywhere after it
HasUnclosedMarker(s) ==
  \E p \in DOMAIN s :
    /\ p + 2 <= Len(s)
    /\ SubSeq(s, p, p + 2) = EVO_OPEN
    /\ \A q \in (p + 3)..Len(s) : s[q] # "]"

\* C7: every claim line whose body contains "[<=" with no closing ']' after it
\* is reported UnclosedEvolutionMarker, wherever in the body the marker is.
C7_UnclosedAlwaysReported ==
  Done =>
    \A i \in DOMAIN lines :
      (Tag(i) = "Claim" /\ HasUnclosedMarker(BodyOf(i))) =>
        CountKindAt("UnclosedEvolutionMarker", i) >= 1

\* what the code does report: the check reads the core text only, and looks
\* for a ']' anywhere in it
UnclosedReportedFromText ==
  Done =>
    \A i \in DOMAIN lines :
      Tag(i) = "Claim" =>
        LET text == lines[i].line_type.claim.text
        IN CountKindAt("UnclosedEvolutionMarker", i) =
             IF (\E p \in DOMAIN text : p + 2 <= Len(text) /\ SubSeq(text, p, p + 2) = EVO_OPEN)
                /\ (\A q \in DOMAIN text : text[q] # "]")
             THEN 1 ELSE 0

(***************************************************************************)
(* Brief-form operands.                                                    *)
(***************************************************************************)
\* a word and each of the eight operators
BriefTokens ==
  {
    <<"x">>,
    <<"=", ">">>,
    <<"<", "=">>,
    <<"<", ">">>,
    <<">", "<">>,
    <<"/", "/">>,
    <<"v", "s">>,
    <<"~">>,
    <<"=">> }

BriefInputs == ClaimInputs(BriefTokens, MaxBriefTokens, <<>>)

InitBrief == InitOf(BriefInputs)

SpecBrief == InitBrief /\ [][Next]_vars

\* operator op occurs in text at position p; a bare "=" is one that is not
\* part of "=>", "<=" or ">="
OccursAt(text, op, p) ==
  /\ p + Len(op) - 1 <= Len(text)
  /\ SubSeq(text, p, p + Len(op) - 1) = op
  /\ op = <<"=">> =>
       /\ ~(p > 1 /\ text[p - 1] \in {"<", ">"})
       /\ ~(p < Len(text) /\ text[p + 1] = ">")

NoTokenIn(s) == \A k \in DOMAIN s : s[k] \in WhiteSpace

OperatorSet == {operators_by_length[k] : k \in DOMAIN operators_by_length}

\* the occurrences of op in the text of line i are all reported when an
\* operand is missing
OperandsReported(i, op) ==
  LET text == lines[i].line_type.claim.text
  IN \A p \in DOMAIN text :
       OccursAt(text, op, p) =>
         /\ NoTokenIn(SubSeq(text, 1, p - 1)) =>
              CountErr(Err("BriefFormMissingLeftOperand", i, op, 0)) >= 1
         /\ NoTokenIn(SubSeq(text, p + Len(op), Len(text))) =>
              CountErr(Err("BriefFormMissingRightOperand", i, op, 0)) >= 1

\* C8: for every operator of the fixed set, bare "=" included, an occurrence
\* with no token before it yields BriefFormMissingLeftOperand naming it and one
\* with no token after it BriefFormMissingRightOperand; with both operands
\* empty both errors are reported.
C8_MissingOperandsReported ==
  Done =>
    \A i \in DOMAIN lines :
      Tag(i) = "Claim" => \A op \in OperatorSet : OperandsReported(i, op)

\* the same for the seven operators other than bare "="
MissingOperandsReportedExceptEq ==
  Done =>
    \A i \in DOMAIN lines :
      Tag(i) = "Claim" => \A op \in OperatorSet \ {<<"=">>} : OperandsReported(i, op)

(***************************************************************************)
(* Standalone modifiers.                                                   *)
(***************************************************************************)
\* a word, the four glyphs, two operators alone, words ending in an operator symbol, a word with an attached glyph
ModTokens ==
  {
    <<"x">>,
    <<"^">>,
    <<"!">>,
    <<"?">>,
    <<"*">>,
    <<"=", ">">>,
    <<"~">>,
    <<"x", "=", ">">>,
    <<"x", "=">>,
    <<"r", "e", "v", "s">>,
    <<"x", "^">> }

ModInputs == ClaimInputs(ModTokens, MaxModTokens, <<>>)

InitMod == InitOf(ModInputs)

SpecMod == InitMod /\ [][Next]_vars

Glyphs == {<<"^">>, <<"!">>, <<"?">>, <<"*">>}

TokensOf(i) == split_whitespace(lines[i].line_type.claim.text)

EndsWithOperator(t) ==
  \E op \in OperatorSet :
    Len(t) >= Len(op) /\ SubSeq(t, Len(t) - Len(op) + 1, Len(t)) = op

\* the positions of line i whose token is a glyph in a warned position
WarnedAt(i) ==
  {k \in DOMAIN TokensOf(i) :
     /\ TokensOf(i)[k] \in Glyphs
     /\ (k = 1 \/ EndsWithOperator(TokensOf(i)[k - 1]))}

\* one StandaloneModifier warning per warned position, and none elsewhere
WarningsMatch ==
  /\ \A i \in DOMAIN lines :
       Tag(i) = "Claim" =>
         \A g \in Glyphs :
           Cardinality({k \in DOMAIN warnings :
                          warnings[k] = Err("StandaloneModifier", i, g, 0)})
             = Cardinality({k \in WarnedAt(i) : TokensOf(i)[k] = g})
  /\ \A k \in DOMAIN warnings :
       /\ warnings[k].kind = "StandaloneModifier"
       /\ warnings[k].line \in DOMAIN lines
       /\ Tag(warnings[k].line) = "Claim"
       /\ warnings[k].arg \in Glyphs
  /\ \A k \in DOMAIN errors : errors[k].kind # "StandaloneModifier"

\* the tokens of line i with the warned glyph tokens taken out
RECURSIVE DropWarned(_, _, _)
DropWarned(tokens, k, warned) ==
  IF k > Len(tokens) THEN <<>>
  ELSE (IF k \in warned THEN <<>> ELSE <<tokens[k]>>) \o DropWarned(tokens, k + 1, warned)

\* the claim-syntax errors line i would get without its warned glyph tokens
ErrorsWithoutWarned(i) ==
  validate_claim_syntax(i,
    parse_claim(JoinWith(DropWarned(TokensOf(i), 1, WarnedAt(i)), <<" ">>)),
    valid_refs).errs

OrdinaryTerm(t) ==
  /\ t \notin Glyphs
  /\ \A op \in OperatorSet : \A p \in DOMAIN t : ~OccursAt(t, op, p)
  /\ \A p \in DOMAIN t : t[p] \notin {"|", "@", "&", "[", "]", "="}

ExactOperators == OperatorSet \ {<<"=">>, <<"<", "=">>}

MaxChars == 5

LineAlphabet == {"A", " ", "-", "\n", "\r"}

\* every text of up to MaxChars characters: any mix of line terminators
CharInputs == SeqsUpTo(LineAlphabet, MaxChars)

InitChars == InitOf(CharInputs)

SpecChars == InitChars /\ [][Next]_vars

NewlinesOf(s) == {p \in DOMAIN s : s[p] = "\n"}

\* the position of the i-th "\n" of s
NthNewline(s, i) ==
  CHOOSE p \in NewlinesOf(s) : Cardinality({q \in NewlinesOf(s) : q <= p}) = i

\* the lines of a text: one per "\n", and one more for text after the last "\n"
LineCount(s) ==
  Cardinality(NewlinesOf(s)) + (IF s # <<>> /\ s[Len(s)] # "\n" THEN 1 ELSE 0)

\* the i-th line of s, without its terminator ("\n" or "\r\n")
InputLine(s, i) ==
  LET terminated == i <= Cardinality(NewlinesOf(s))
      first == IF i = 1 THEN 1 ELSE NthNewline(s, i - 1) + 1
      last == IF terminated THEN NthNewline(s, i) - 1 ELSE Len(s)
  IN IF terminated /\ last >= first /\ s[last] = "\r"
     THEN SubSeq(s, first, last - 1)
     ELSE SubSeq(s, first, last)

\* C11: the result's lines hold exactly one ParsedLine per input line, in input
\* order; the i-th has line_number i, and its raw is the i-th input line with
\* every character kept (only the line terminator is not part of it).
C11_OneParsedLinePerInputLine ==
  pc # "start" =>
    /\ Len(lines) = LineCount(input)
    /\ \A i \in DOMAIN lines :
         /\ lines[i].line_number = i
         /\ lines[i].raw = InputLine(input, i)

\* " \r\n\nA": three lines, the first keeps its space and loses only "\r\n"
C11_Witness ==
  /\ Done
  /\ Len(input) = 5 /\ input[2] = "\r" /\ input[3] = "\n"
  /\ Len(lines) = 3
  /\ lines[1].raw = <<" ">> /\ lines[2].raw = <<>> /\ lines[3].raw = <<"A">>

(***************************************************************************)
(* The agent's edit_worldview tool (agent/src/main.rs).                    *)
(***************************************************************************)
MaxCalls == 2

MaxEdits == 2

\* str::matches(p).count(): the non-overlapping matches, left to right; the
\* empty pattern matches at every character boundary
MatchCount(s, p) == IF p = <<>> THEN Len(s) + 1 ELSE Len(match_indices(s, p))

\* str::replacen(old, new, 1)
ReplaceFirst(s, old, new) ==
  LET i == Find(s, old)
  IN IF i = 0 THEN s
     ELSE SubSeq(s, 1, i - 1) \o new \o SubSeq(s, i + Len(old), Len(s))

Applied(content) == [ok |-> TRUE, content |-> content, reply |-> NoResponse]

Failed(kind, i) == [ok |-> FALSE, content |-> <<>>, reply |-> Response(kind, i)]

\* Validate and apply each edit, from the i-th on, to the in-memory content
RECURSIVE ApplyEdits(_, _, _)
ApplyEdits(content, es, i) ==
  IF i > Len(es) THEN Applied(content)
  ELSE LET e == es[i]
       IN IF ~e.has_old THEN Failed("missing_old_string", i)
          ELSE IF ~e.has_new THEN Failed("missing_new_string", i)
          ELSE IF content = <<>>
               THEN IF e.old_string # <<>> THEN Failed("file_is_empty", i)
                    ELSE ApplyEdits(e.new_string, es, i + 1)
          ELSE LET count == MatchCount(content, e.old_string)
               IN CASE count = 0 -> Failed("not_found", i)
                    [] count = 1 ->
                         ApplyEdits(ReplaceFirst(content, e.old_string, e.new_string),
                                    es, i + 1)
                    [] OTHER -> Failed("not_unique", i)

\* Ensure file ends with newline
EnsureNewline(content) ==
  IF content # <<>> /\ content[Len(content)] # "\n"
  THEN Append(content, "\n") ELSE content

\* the edits a call is made of: create A/  .f/    - x x x; x -> y; x -> ^ x; drop "- ";
\* x -> x x; x x -> z; one without old_string; one without new_string; create
\* an empty document; create a document of a blank line and a line of a tab
EditChoices ==
  {
    [has_old |-> TRUE, old_string |-> <<>>, has_new |-> TRUE, new_string |-> <<>>],
    [has_old |-> TRUE, old_string |-> <<>>, has_new |-> TRUE, new_string |-> <<" ", "\n", "\t">>],
    [has_old |-> TRUE, old_string |-> <<>>, has_new |-> TRUE, new_string |-> <<"A", "\n", " ", " ", ".", "f", "\n", " ", " ", " ", " ", "-", " ", "x", " ", "x", " ", "x">>],
    [has_old |-> TRUE, old_string |-> <<"x">>, has_new |-> TRUE, new_string |-> <<"y">>],
    [has_old |-> TRUE, old_string |-> <<"x">>, has_new |-> TRUE, new_string |-> <<"^", " ", "x">>],
    [has_old |-> TRUE, old_string |-> <<"-", " ">>, has_new |-> TRUE, new_string |-> <<>>],
    [has_old |-> TRUE, old_string |-> <<"x">>, has_new |-> TRUE, new_string |-> <<"x", " ", "x">>],
    [has_old |-> TRUE, old_string |-> <<"x", " ", "x">>, has_new |-> TRUE, new_string |-> <<"z">>],
    [has_old |-> FALSE, old_string |-> <<>>, has_new |-> TRUE, new_string |-> <<"y">>],
    [has_old |-> TRUE, old_string |-> <<"x">>, has_new |-> FALSE, new_string |-> <<>>] }

\* the params of a call: no edits field, an empty array, up to MaxEdits edits
ParamChoices ==
  {NoParams} \cup {[has_edits |-> TRUE, edits |-> es] : es \in SeqsUpTo(EditChoices, MaxEdits)}

\* handle_edit_worldview is called: the edits array is checked and the
\* current file content is read into memory (empty for a new file)
EditWorldview ==
  /\ pc = "idle"
  /\ calls < MaxCalls
  /\ \E p \in ParamChoices :
       /\ params' = p
       /\ CASE ~p.has_edits ->
                 /\ response' = Response("edits_required", 0)
                 /\ UNCHANGED <<input, pc>>
            [] p.has_edits /\ p.edits = <<>> ->
                 /\ response' = Response("edits_empty", 0)
                 /\ UNCHANGED <<input, pc>>
            [] OTHER ->
                 /\ response' = Response("editing", 0)
                 /\ input' = (IF file.exists THEN file.content ELSE <<>>)
                 /\ pc' = "editing"
  /\ calls' = calls + 1
  /\ UNCHANGED <<lines, errors, warnings, valid_refs, file, seen>>

\* the edits are applied to the in-memory content; an edit that fails ends
\* the call, otherwise the content, newline-terminated, is handed to validate
ApplyAllEdits ==
  /\ pc = "editing"
  /\ LET r == ApplyEdits(input, params.edits, 1)
     IN IF ~r.ok
        THEN /\ response' = r.reply
             /\ input' = <<>>
             /\ params' = NoParams
             /\ pc' = "idle"
        ELSE /\ response' = Response("validating", 0)
             /\ input' = EnsureNewline(r.content)
             /\ pc' = "start"
             /\ UNCHANGED params
  /\ UNCHANGED <<lines, errors, warnings, valid_refs, file, calls, seen>>

\* mutant: the content is written whatever validate says
FinishEdit_WriteAlways ==
  /\ pc = "done"
  /\ response.kind = "validating"
  /\ file' = [exists |-> TRUE, content |-> input]
  /\ response' = IF ~is_valid THEN Response("validation_failed", 0)
                 ELSE IF has_warnings THEN Response("applied_with_warnings", 0)
                 ELSE Response("applied", 0)
  /\ pc' = "idle"
  /\ input' = <<>> /\ lines' = <<>> /\ errors' = <<>> /\ warnings' = <<>>
  /\ valid_refs' = {} /\ params' = NoParams
  /\ UNCHANGED <<calls, seen>>

\* mutant: a document without any concept is not written
FinishEdit_NeedsConcept ==
  /\ pc = "done"
  /\ response.kind = "validating"
  /\ IF ~is_valid \/ ~\E i \in DOMAIN lines : lines[i].line_type.tag = "Concept"
     THEN /\ response' = Response("validation_failed", 0)
          /\ UNCHANGED file
     ELSE /\ file' = [exists |-> TRUE, content |-> input]
          /\ response' = IF has_warnings THEN Response("applied_with_warnings", 0)
                         ELSE Response("applied", 0)
  /\ pc' = "idle"
  /\ input' = <<>> /\ lines' = <<>> /\ errors' = <<>> /\ warnings' = <<>>
  /\ valid_refs' = {} /\ params' = NoParams
  /\ UNCHANGED <<calls, seen>>

\* handle_edit_worldview after validate: write the file only if the new
\* content is valid, and reply; the content and the result are dropped
FinishEdit ==
  /\ pc = "done"
  /\ response.kind = "validating"
  /\ IF ~is_valid
     THEN /\ response' = Response("validation_failed", 0)
          /\ UNCHANGED file
     ELSE /\ file' = [exists |-> TRUE, content |-> input]
          /\ response' = IF has_warnings THEN Response("applied_with_warnings", 0)
                         ELSE Response("applied", 0)
  /\ pc' = "idle"
  /\ input' = <<>> /\ lines' = <<>> /\ errors' = <<>> /\ warnings' = <<>>
  /\ valid_refs' = {} /\ params' = NoParams
  /\ UNCHANGED <<calls, seen>>

NextAgent == Next \/ EditWorldview \/ ApplyAllEdits \/ FinishEdit

\* the file the agent starts from: none, or a valid document
InitialFiles == {NoFile, [exists |-> TRUE, content |-> <<"A", "\n", " ", " ", ".", "f", "\n", " ", " ", " ", " ", "-", " ", "x", "\n">>]}

InitAgent ==
  /\ file \in InitialFiles
  /\ input = <<>>
  /\ pc = "idle"
  /\ lines = <<>>
  /\ errors = <<>>
  /\ warnings = <<>>
  /\ valid_refs = {}
  /\ params = NoParams
  /\ response = NoResponse
  /\ calls = 0
  /\ seen = {}

SpecAgent == InitAgent /\ [][NextAgent]_vars

ValidText(text) == validate(text).errors = <<>>

\* the file on disk is a valid document (no file reads as the empty document)
FileValid == ValidText(file.content)

\* C12: the file changes only by the write that ends a call, and only to the
\* full post-edit content that validate found without errors; content with an
\* error is never written and the file stays as it was; warnings do not stop
\* the write; so a file that is valid stays valid through every call.
C12_WriteOnlyValidated ==
  [][ /\ file' # file =>
           /\ pc = "done" /\ pc' = "idle"
           /\ errors = <<>>
           /\ file' = [exists |-> TRUE, content |-> input]
      /\ pc = "done" =>
           /\ errors # <<>> => (file' = file /\ response'.kind = "validation_failed")
           /\ errors = <<>> =>
                /\ file' = [exists |-> TRUE, content |-> input]
                /\ response'.kind =
                     IF warnings # <<>> THEN "applied_with_warnings" ELSE "applied"
      /\ (file' # file /\ FileValid) => ValidText(file'.content) ]_vars

\* a first call wrote content that has a warning, a second was rejected and
\* left that content on disk
C12_Witness ==
  /\ pc = "idle"
  /\ calls = 2
  /\ response.kind = "validation_failed"
  /\ file.exists /\ Contains(file.content, <<"^">>)
  /\ validate(file.content).warnings # <<>>
  /\ FileValid

\* the places of content at which old_string stands (they may overlap)
OccurrencesOf(content, old) ==
  {p \in 1..(Len(content) - Len(old) + 1) : SubSeq(content, p, p + Len(old) - 1) = old}

\* how often old_string is found: at how many places, or (as the code counts)
\* in how many matches that do not overlap
FoundCount(content, old, by_places) ==
  IF by_places THEN Cardinality(OccurrencesOf(content, old)) ELSE MatchCount(content, old)

\* the content with the leftmost occurrence of the edit's old_string replaced
EditedOnce(content, e) ==
  IF content = <<>> \/ OccurrencesOf(content, e.old_string) = {} THEN e.new_string
  ELSE LET p == CHOOSE q \in OccurrencesOf(content, e.old_string) :
                  \A r \in OccurrencesOf(content, e.old_string) : q <= r
       IN SubSeq(content, 1, p - 1) \o e.new_string
          \o SubSeq(content, p + Len(e.old_string), Len(content))

\* the content as modified by the first k edits
RECURSIVE EditedUpTo(_, _, _)
EditedUpTo(content, es, k) ==
  IF k = 0 THEN content ELSE EditedOnce(EditedUpTo(content, es, k - 1), es[k])

\* the edit cannot be applied to the content
EditFails(content, e, by_places) ==
  \/ ~e.has_old
  \/ ~e.has_new
  \/ content = <<>> /\ e.old_string # <<>>
  \/ content # <<>> /\ FoundCount(content, e.old_string, by_places) # 1

EditErrors == {"missing_old_string", "missing_new_string", "file_is_empty",
               "not_found", "not_unique"}

\* the step that applies the edits: every edit is judged against the content
\* as modified by the edits before it; the first edit that fails ends the call
\* with an error naming it, nothing is handed to validate and the file is as
\* before; otherwise the content after the last edit goes to validate
EditsSequentialAndAtomic(by_places) ==
  pc = "editing" =>
    LET es == params.edits
        failing == {k \in DOMAIN es :
                      EditFails(EditedUpTo(file.content, es, k - 1), es[k], by_places)}
    IN /\ file' = file
       /\ failing # {} =>
            /\ pc' = "idle"
            /\ response'.kind \in EditErrors
            /\ response'.edit \in failing /\ \A k \in failing : response'.edit <= k
       /\ failing = {} =>
            /\ pc' = "start"
            /\ input' = EnsureNewline(EditedUpTo(file.content, es, Len(es)))

\* C13: the edits of a call are applied in order to an in-memory copy; each
\* old_string must occur exactly once in the content as modified by the edits
\* before it; an edit that fails (missing field, no occurrence, more than one
\* occurrence, non-empty old_string against empty content) ends the call with
\* an error, the file unchanged and none of the earlier edits applied.
C13_OldStringOccursOnce == [][EditsSequentialAndAtomic(TRUE)]_vars

\* the same with old_string counted as the code counts it: exactly one match
\* when matches are taken left to right without overlap
EditsAppliedByMatchCount ==
  [][ /\ EditsSequentialAndAtomic(FALSE)
      /\ pc \in {"idle", "editing"} => file' = file ]_vars

\* a second edit is about to fail against the content the first edit produced
FailsOnEditedContent ==
  /\ pc = "editing"
  /\ Len(params.edits) = 2
  /\ FoundCount(file.content, params.edits[2].old_string, FALSE) = 1
  /\ FoundCount(EditedUpTo(file.content, params.edits, 1),
                params.edits[2].old_string, FALSE) = 2

(***************************************************************************)
(* Order of the recorded errors.                                           *)
(***************************************************************************)
ClassificationKinds ==
  {"EmptyConceptName", "MissingFacetPrefix", "EmptyFacetName", "MissingClaimPrefix",
   "InvalidIndentation", "UnexpectedIndentation"}

StructuralKinds == {"ConceptWithoutFacets", "FacetWithoutClaims", "OrphanFacet", "OrphanClaim"}

\* the pass an error comes from
BlockOf(e) ==
  IF e.kind \in ClassificationKinds THEN 1
  ELSE IF e.kind \in StructuralKinds THEN 2 ELSE 3

IsPrefix(s, t) == Len(s) <= Len(t) /\ SubSeq(t, 1, Len(s)) = s

\* classification errors, then structural errors, then claim-syntax errors;
\* the first and the last block in ascending line order
ErrorsInBlocks ==
  /\ \A j, k \in DOMAIN errors :
       j < k =>
         /\ BlockOf(errors[j]) <= BlockOf(errors[k])
         /\ (BlockOf(errors[j]) = BlockOf(errors[k]) /\ BlockOf(errors[j]) # 2) =>
              errors[j].line <= errors[k].line
  /\ pc \in {"tokenized", "indexed"} => \A k \in DOMAIN errors : BlockOf(errors[k]) = 1
  /\ pc = "structured" => \A k \in DOMAIN errors : BlockOf(errors[k]) <= 2

\* C14: errors is the classification errors in ascending line order, then the
\* structural errors, then the claim-syntax errors grouped by claim line in
\* ascending line order; each pass only appends to what the passes before it
\* recorded.
C14_ErrorBlocks ==
  /\ []ErrorsInBlocks
  /\ [][pc # "start" => IsPrefix(errors, errors')]_vars

\* all three blocks, the classification error of a later line ahead of the
\* structural error of an earlier one
C14_Witness ==
  /\ Done
  /\ \E a, b, c \in DOMAIN errors :
       /\ a < b /\ b < c
       /\ BlockOf(errors[a]) = 1 /\ BlockOf(errors[b]) = 2 /\ BlockOf(errors[c]) = 3
       /\ errors[a].line > errors[b].line

(***************************************************************************)
(* Repeated calls of validate (cli/src/validate.rs: one call per file).    *)
(***************************************************************************)
\* validate returns its result to the caller
Return ==
  /\ pc = "done"
  /\ seen' = seen \cup {[input |-> input, errors |-> errors, warnings |-> warnings,
                         lines |-> lines]}
  /\ pc' = "returned"
  /\ UNCHANGED <<input, lines, errors, warnings, valid_refs, file, params, response, calls>>

\* the documents validated: empty; a lone concept; valid; valid with a
\* warning; with errors of all three passes; with a resolved reference
CallInputs ==
  {
      <<>>,
      <<"A">>,
      <<"A", "\n", " ", " ", ".", "f", "\n", " ", " ", " ", " ", "-", " ", "x">>,
      <<"A", "\n", " ", " ", ".", "f", "\n", " ", " ", " ", " ", "-", " ", "^", " ", "x">>,
      <<" ", " ", "f", "\n", " ", " ", " ", " ", "-", " ", "x", " ", "&", "A", ".", "f">>,
      <<"A", "\n", " ", " ", ".", "f", "\n", " ", " ", " ", " ", "-", " ", "x", " ", "&", "A", ".", "f", "\n">> }

\* the caller validates the next document
Call ==
  /\ pc = "returned"
  /\ calls < MaxCalls
  /\ input' \in CallInputs
  /\ calls' = calls + 1
  /\ pc' = "start"
  /\ UNCHANGED <<lines, errors, warnings, valid_refs, file, params, response, seen>>

NextCalls == Next \/ Return \/ Call

InitCalls == InitOf(CallInputs)

SpecCalls == InitCalls /\ [][NextCalls]_vars

\* C15: a text validated again, directly or after validations of other
\* documents, yields the errors, warnings and lines it yielded before.
C15_SameTextSameResult ==
  Done =>
    \A r \in seen :
      r.input = input =>
        /\ r.errors = errors
        /\ r.warnings = warnings
        /\ r.lines = lines

\* a text validated, then another, then the first again, with errors to compare
C15_Witness ==
  /\ Done
  /\ calls = 2
  /\ Cardinality(seen) = 2
  /\ \E r \in seen : r.input = input /\ r.errors # <<>>
  /\ \E r \in seen : r.input # input /\ r.errors # <<>> /\ r.warnings = <<>>

(***************************************************************************)
(* The inline scan of a claim body.                                        *)
(***************************************************************************)
MaxScanTokens == 3

\* words, the three markers alone and with a token, markers without spaces around them
ScanTokens ==
  {
      <<"x">>,
      <<"y">>,
      <<"|">>,
      <<"@", "s">>,
      <<"&", "A", ".", "f">>,
      <<"@">>,
      <<"&", "n">>,
      <<"c", "|", "d">>,
      <<"@", "s", "&", "A", ".", "f">>,
      <<"x", "@", "t">> }

ScanInputs == ClaimInputs(ScanTokens, MaxScanTokens, <<>>)

InitScan == InitOf(ScanInputs)

SpecScan == InitScan /\ [][Next]_vars

Markers == {"|", "@", "&"}

MarkersIn(t) == {p \in DOMAIN t : t[p] \in Markers}

\* the i-th smallest element of a set of positions
Nth(S, i) == CHOOSE p \in S : Cardinality({q \in S : q <= p}) = i

\* the first marker after position p; Len(t) + 1 when there is none
NextMarker(t, p) ==
  IF \E q \in MarkersIn(t) : q > p
  THEN CHOOSE q \in MarkersIn(t) : q > p /\ \A r \in MarkersIn(t) : r > p => q <= r
  ELSE Len(t) + 1

\* where the token of the marker at p ends: at the next space or marker
\* character; a '|' has no token
TokenEnd(t, p) ==
  IF t[p] = "|" THEN p + 1
  ELSE IF \E q \in (p + 1)..Len(t) : t[q] \in Markers \cup {" "}
       THEN CHOOSE q \in (p + 1)..Len(t) :
              /\ t[q] \in Markers \cup {" "}
              /\ \A r \in (p + 1)..(q - 1) : t[r] \notin Markers \cup {" "}
       ELSE Len(t) + 1

\* the non-empty tokens of the markers m of t, left to right
TokensOfMarker(t, m) ==
  LET ps == {p \in MarkersIn(t) : t[p] = m}
  IN Concat([k \in 1..Cardinality(ps) |->
       LET tok == SubSeq(t, Nth(ps, k) + 1, TokenEnd(t, Nth(ps, k)) - 1)
       IN IF tok = <<>> THEN <<>> ELSE <<tok>>])

\* the non-blank free text between a marker (after its token) and the next
\* marker, left to right, trimmed
TerminatedSegments(t) ==
  LET ps == {p \in MarkersIn(t) : NextMarker(t, p) <= Len(t)}
  IN Concat([k \in 1..Cardinality(ps) |->
       LET seg == Trim(SubSeq(t, TokenEnd(t, Nth(ps, k)), NextMarker(t, Nth(ps, k)) - 1))
       IN IF seg = <<>> THEN <<>> ELSE <<seg>>])

ClaimOf(i) == lines[i].line_type.claim

\* C16: the trimmed text before the first '|', '@' or '&' is text; every later
\* non-blank free-text segment that a marker ends is a condition, every
\* non-empty '@' token a source and every non-empty '&' token a reference,
\* each list in order of appearance; conditions holds nothing else but, at
\* most, one entry for the text after the last marker.
C16_InlineScan ==
  Done =>
    \A i \in DOMAIN lines :
      (Tag(i) = "Claim" /\ ~Contains(BodyOf(i), EVO_OPEN)) =>
        LET t == BodyOf(i)
        IN /\ ClaimOf(i).text = Trim(SubSeq(t, 1, NextMarker(t, 0) - 1))
           /\ ClaimOf(i).sources = TokensOfMarker(t, "@")
           /\ ClaimOf(i).references = TokensOfMarker(t, "&")
           /\ IsPrefix(TerminatedSegments(t), ClaimOf(i).conditions)
           /\ Len(ClaimOf(i).conditions) <= Len(TerminatedSegments(t)) + 1

\* "c|d @s&A.f x": text c, condition d ended by '@', source s, reference A.f
C16_Witness ==
  /\ Done
  /\ Len(lines) = 3 /\ Tag(3) = "Claim"
  /\ ClaimOf(3).text = <<"c">>
  /\ ClaimOf(3).conditions # <<>> /\ ClaimOf(3).conditions[1] = <<"d">>
  /\ ClaimOf(3).sources = <<<<"s">>>>
  /\ ClaimOf(3).references = <<<<"A", ".", "f">>>>

(***************************************************************************)
(* Closed evolution markers.                                               *)
(***************************************************************************)
MaxSpanTokens == 3

\* words, a closed marker with and without content, the opening and the
\* closing alone, a condition, a source
SpanTokens ==
  {
      <<"x">>,
      <<"z">>,
      <<"[", "<", "=", " ", "y", "]">>,
      <<"[", "<", "=", "]">>,
      <<"[", "<", "=">>,
      <<"]">>,
      <<"|", "c">>,
      <<"@", "s">> }

SpanInputs == ClaimInputs(SpanTokens, MaxSpanTokens, <<>>)

InitSpan == InitOf(SpanInputs)

SpecSpan == InitSpan /\ [][Next]_vars

\* the places of s at which "[<=" stands
OpeningsIn(s) == {p \in DOMAIN s : p + 2 <= Len(s) /\ SubSeq(s, p, p + 2) = EVO_OPEN}

\* the first "[<=" of s
FirstOpening(s) == CHOOSE p \in OpeningsIn(s) : \A q \in OpeningsIn(s) : p <= q

\* the places of ']' after the first "[<=" of s
ClosingsIn(s) == {q \in DOMAIN s : q > FirstOpening(s) /\ s[q] = "]"}

\* the first ']' after the first "[<=" of s
FirstClosing(s) == CHOOSE q \in ClosingsIn(s) : \A r \in ClosingsIn(s) : q <= r

\* s has a "[<=" whose first occurrence is followed by a ']'
HasClosedMarker(s) == OpeningsIn(s) # {} /\ ClosingsIn(s) # {}

\* C17: when the body holds "[<=" and a ']' after it, prior_belief is the
\* trimmed text between the first "[<=" and the first ']' after it, and the
\* inline scan reads the trimmed text before the span directly followed by the
\* trimmed text after it; the line gets EmptyEvolutionMarker exactly when that
\* prior_belief is blank.  Without a closed marker no evolution is recorded.
C17_ClosedMarker ==
  Done =>
    \A i \in DOMAIN lines :
      Tag(i) = "Claim" =>
        LET b == BodyOf(i)
        IN IF HasClosedMarker(b)
           THEN LET prior == Trim(SubSeq(b, FirstOpening(b) + 3, FirstClosing(b) - 1))
                    t == Trim(SubSeq(b, 1, FirstOpening(b) - 1))
                         \o Trim(SubSeq(b, FirstClosing(b) + 1, Len(b)))
                IN /\ ClaimOf(i).evolution = [present |-> TRUE, prior_belief |-> prior]
                   /\ ClaimOf(i).text = Trim(SubSeq(t, 1, NextMarker(t, 0) - 1))
                   /\ ClaimOf(i).sources = TokensOfMarker(t, "@")
                   /\ IsPrefix(TerminatedSegments(t), ClaimOf(i).conditions)
                   /\ CountKindAt("EmptyEvolutionMarker", i) = IF prior = <<>> THEN 1 ELSE 0
           ELSE /\ ~ClaimOf(i).evolution.present
                /\ CountKindAt("EmptyEvolutionMarker", i) = 0

\* "x [<= y] z": prior belief y, and the scan reads "xz"
C17_Witness ==
  /\ Done
  /\ Len(lines) = 3 /\ Tag(3) = "Claim"
  /\ HasClosedMarker(BodyOf(3))
  /\ ClaimOf(3).evolution.prior_belief = <<"y">>
  /\ ClaimOf(3).text = <<"x", "z">>
  /\ is_valid

\* "x [<= ]": a closed marker with blank content
EmptyMarkerReported ==
  /\ Done
  /\ Len(lines) = 3 /\ Tag(3) = "Claim"
  /\ ClaimOf(3).text = <<"x">>
  /\ Contains(BodyOf(3), <<"=", " ", "]">>)
  /\ errors = <<Err("EmptyEvolutionMarker", 3, <<>>, 0)>>

\* the trimmed free text after the last marker of t and its token
TrailingText(t) ==
  LET p == CHOOSE q \in MarkersIn(t) : \A r \in MarkersIn(t) : r <= q
  IN Trim(SubSeq(t, TokenEnd(t, p), Len(t)))

\* a claim line whose body has a marker and non-blank text after the last one
HasTrailingText(i) ==
  /\ Tag(i) = "Claim"
  /\ ~Contains(BodyOf(i), EVO_OPEN)
  /\ MarkersIn(BodyOf(i)) # {}
  /\ TrailingText(BodyOf(i)) # <<>>

MaxDocLines == 3

\* empty; spaces only; a concept, also behind a tab; a facet and a claim, also
\* with a tab after the indentation; 2 spaces without '.'; 4 spaces without
\* '-'; 3 spaces; 5 spaces
DocLines ==
  {
      <<>>,
      <<" ", " ", " ">>,
      <<"A">>,
      <<"\t", "A">>,
      <<" ", " ", ".", "f">>,
      <<" ", " ", "\t", ".", "f">>,
      <<" ", " ", " ", " ", "-", " ", "x">>,
      <<" ", " ", " ", " ", "\t", "-", " ", "x">>,
      <<" ", " ", "f">>,
      <<" ", " ", " ", " ", "x">>,
      <<" ", " ", " ", "x">>,
      <<" ", " ", " ", " ", " ", "-", " ", "x">> }

DocInputs == {JoinWith(d, <<"\n">>) : d \in SeqsUpTo(DocLines, MaxDocLines)}

InitDoc == InitOf(DocInputs)

SpecDoc == InitDoc /\ [][Next]_vars

\* the number of ' ' characters a line starts with
LeadingSpaces(s) ==
  Cardinality({n \in DOMAIN s : \A k \in 1..n : s[k] = " "})

\* the first character of s outside the set skip; "" when there is none
FirstOutside(s, skip) ==
  IF \A k \in DOMAIN s : s[k] \in skip THEN ""
  ELSE s[CHOOSE k \in DOMAIN s : s[k] \notin skip /\ \A j \in 1..(k - 1) : s[j] \in skip]

\* every Facet line starts with 2 spaces and every Claim line with 4, a
\* Concept line with none; the prefix is the first character outside skip
IndentationOfTypedLines(skip) ==
  pc # "start" =>
    \A i \in DOMAIN lines :
      /\ Tag(i) = "Facet" =>
           LeadingSpaces(lines[i].raw) = 2 /\ FirstOutside(lines[i].raw, skip) = "."
      /\ Tag(i) = "Claim" =>
           LeadingSpaces(lines[i].raw) = 4 /\ FirstOutside(lines[i].raw, skip) = "-"
      /\ Tag(i) = "Concept" => LeadingSpaces(lines[i].raw) = 0

\* C19 as stated: a Facet line has exactly 2 leading spaces and '.' as its
\* first non-space character, a Claim line exactly 4 and '-', a Concept line
\* no leading space.
C19_PrefixIsFirstNonSpace == IndentationOfTypedLines({" "})

\* C19 (amended): a Facet line has exactly 2 leading spaces and '.' as its
\* first non-whitespace character, a Claim line exactly 4 and '-', a Concept
\* line no leading space; other whitespace (a tab) may stand between the
\* leading spaces and the prefix.
C19_PrefixIsFirstNonWhitespace == IndentationOfTypedLines(WhiteSpace)

\* a concept, a facet and a claim, the last two with a tab before the prefix
C19_Witness ==
  /\ Done
  /\ Len(lines) = 3
  /\ Tag(1) = "Concept" /\ Tag(2) = "Facet" /\ Tag(3) = "Claim"
  /\ lines[2].raw[3] = "\t" /\ lines[3].raw[5] = "\t"
  /\ is_valid

\* the classification errors that go with typing a non-blank line Blank
DegradingKinds ==
  {"MissingFacetPrefix", "MissingClaimPrefix", "InvalidIndentation", "UnexpectedIndentation"}

NonBlank(i) == \E k \in DOMAIN lines[i].raw : lines[i].raw[k] \notin WhiteSpace

\* the degrading errors recorded for line i
DegradingAt(i) ==
  {k \in DOMAIN errors : errors[k].kind \in DegradingKinds /\ errors[k].line = i}

\* the document with line i replaced by an empty line
WithEmptyLine(i) ==
  Concat([j \in DOMAIN lines |-> (IF j = i THEN <<>> ELSE lines[j].raw) \o <<"\n">>])

\* the recorded errors without the degrading errors of line i
ErrorsWithoutLine(i) ==
  Concat([k \in DOMAIN errors |-> IF k \in DegradingAt(i) THEN <<>> ELSE <<errors[k]>>])

\* C20: a non-blank line is typed Blank iff exactly one of MissingFacetPrefix,
\* MissingClaimPrefix, InvalidIndentation, UnexpectedIndentation is recorded
\* for it (otherwise none is), and validating the document with that line
\* replaced by an empty line gives the same line types, the same warnings and
\* the same errors but for that one.
C20_DegradedLineIsBlank ==
  Done =>
    \A i \in DOMAIN lines :
      NonBlank(i) =>
        /\ Tag(i) = "Blank" <=> Cardinality(DegradingAt(i)) = 1
        /\ Tag(i) # "Blank" => DegradingAt(i) = {}
        /\ Tag(i) = "Blank" =>
             LET r == validate(WithEmptyLine(i))
             IN /\ r.errors = ErrorsWithoutLine(i)
                /\ r.warnings = warnings
                /\ Len(r.lines) = Len(lines)
                /\ \A j \in DOMAIN lines : r.lines[j].line_type = lines[j].line_type

\* "A", a 2-space line without '.', a claim: the concept stays without facets
\* and the claim is an orphan, as if the middle line were empty
C20_Witness ==
  /\ Done
  /\ Len(lines) = 3
  /\ Tag(1) = "Concept" /\ Tag(2) = "Blank" /\ NonBlank(2) /\ Tag(3) = "Claim"
  /\ CountKindAt("MissingFacetPrefix", 2) = 1
  /\ CountKindAt("ConceptWithoutFacets", 1) = 1
  /\ CountKindAt("OrphanClaim", 3) = 1

(***************************************************************************)
(* The third pass is unconditional.                                        *)
(***************************************************************************)
\* the claim-syntax errors recorded for line i, in the order recorded
SyntaxErrorsAt(i) ==
  Concat([k \in DOMAIN errors |->
    IF BlockOf(errors[k]) = 3 /\ errors[k].line = i THEN <<errors[k]>> ELSE <<>>])

\* the warnings recorded for line i, in the order recorded
WarningsAt(i) ==
  Concat([k \in DOMAIN warnings |->
    IF warnings[k].line = i THEN <<warnings[k]>> ELSE <<>>])

\* some error of the first two passes is recorded for a line other than i
ErrorElsewhere(i) ==
  \E k \in DOMAIN errors : BlockOf(errors[k]) # 3 /\ errors[k].line # i

\* C21: every Claim line is checked by the claim syntax validator: the
\* claim-syntax errors and the warnings recorded for it are those its own body
\* and the declared pairs give, whatever classification or structural errors
\* were recorded for any line, an OrphanClaim for the same line included; no
\* claim-syntax error or warning is recorded for a line that is not a Claim.
C21_ClaimsAlwaysChecked ==
  Done =>
    /\ \A i \in DOMAIN lines :
         IF Tag(i) = "Claim"
         THEN LET r == validate_claim_syntax(i, parse_claim(BodyOf(i)), DeclaredPairs)
              IN SyntaxErrorsAt(i) = r.errs /\ WarningsAt(i) = r.warns
         ELSE SyntaxErrorsAt(i) = <<>> /\ WarningsAt(i) = <<>>
    /\ \A k \in DOMAIN errors : errors[k].line \in DOMAIN lines
    /\ \A k \in DOMAIN warnings : warnings[k].line \in DOMAIN lines

\* an orphan claim with an undeclared reference, next to a line that failed
\* classification: the claim gets both its OrphanClaim and its UndefinedReference
C21_Witness ==
  /\ Done
  /\ \E i \in DOMAIN lines :
       /\ Tag(i) = "Claim"
       /\ CountKindAt("OrphanClaim", i) = 1
       /\ CountKindAt("UndefinedReference", i) = 1
       /\ ErrorElsewhere(i)
       /\ \E k \in DOMAIN errors : errors[k].kind \in ClassificationKinds

(***************************************************************************)
(* Facets without a name and claims without a text.                        *)
(***************************************************************************)
MaxEmptyLines == 3

\* an empty line; a concept; a facet with no name and one with a blank name; a
\* named facet; a claim; claims with no core text: bare, before a condition,
\* before a source
EmptyLines ==
  {
    <<>>,
    <<"A">>,
    <<" ", " ", ".">>,
    <<" ", " ", ".", " ">>,
    <<" ", " ", ".", "f">>,
    <<" ", " ", " ", " ", "-", " ", "x">>,
    <<" ", " ", " ", " ", "-">>,
    <<" ", " ", " ", " ", "-", " ", "|", "c">>,
    <<" ", " ", " ", " ", "-", " ", "@", "s">> }

EmptyInputs == {JoinWith(d, <<"\n">>) : d \in SeqsUpTo(EmptyLines, MaxEmptyLines)}

InitEmpty == InitOf(EmptyInputs)

SpecEmpty == InitEmpty /\ [][Next]_vars

\* line i is two spaces, a '.', and nothing but whitespace after it
UnnamedFacetLine(i) ==
  /\ LeadingSpaces(lines[i].raw) = 2
  /\ Len(lines[i].raw) >= 3 /\ lines[i].raw[3] = "."
  /\ \A k \in 4..Len(lines[i].raw) : lines[i].raw[k] \in WhiteSpace

\* C22: a line of 2 spaces and a '.' with an empty or blank name is reported
\* EmptyFacetName once and typed Facet with the empty name: its concept is not
\* reported ConceptWithoutFacets, the claim lines below it (up to the next facet
\* or concept) are not OrphanClaim, and it is reported FacetWithoutClaims
\* exactly when no claim line is below it.
C22_UnnamedFacetKept ==
  Done =>
    \A i \in DOMAIN lines :
      UnnamedFacetLine(i) =>
        /\ Tag(i) = "Facet" /\ NameOf(i) = <<>>
        /\ CountErr(Err("EmptyFacetName", i, <<>>, 0)) = 1
        /\ CountKindAt("EmptyFacetName", i) = 1
        /\ NearestBefore(i, {"Concept"}) # 0 =>
             CountKindAt("ConceptWithoutFacets", NearestBefore(i, {"Concept"})) = 0
        /\ \A j \in Below(i, {"Concept", "Facet"}) :
             Tag(j) = "Claim" => CountKindAt("OrphanClaim", j) = 0
        /\ CountErr(Err("FacetWithoutClaims", i, <<>>, 0)) =
             IF \A j \in Below(i, {"Concept", "Facet"}) : Tag(j) # "Claim" THEN 1 ELSE 0

\* A / a facet with a blank name / a claim: EmptyFacetName is the only error
C22_Witness ==
  /\ Done
  /\ Len(lines) = 3
  /\ Tag(1) = "Concept" /\ UnnamedFacetLine(2) /\ Len(lines[2].raw) = 4 /\ Tag(3) = "Claim"
  /\ errors = <<Err("EmptyFacetName", 2, <<>>, 0)>>

\* line i is four spaces and a '-'
ClaimShaped(i) ==
  /\ LeadingSpaces(lines[i].raw) = 4
  /\ Len(lines[i].raw) >= 5 /\ lines[i].raw[5] = "-"

\* the position of the first '|', '@' or '&' of s; Len(s) + 1 when there is none
FirstMarker(s) ==
  IF \E p \in DOMAIN s : s[p] \in {"|", "@", "&"}
  THEN CHOOSE p \in DOMAIN s :
         s[p] \in {"|", "@", "&"} /\ \A q \in 1..(p - 1) : s[q] \notin {"|", "@", "&"}
  ELSE Len(s) + 1

\* nothing after the '-', or only whitespace before the first marker
CoreEmpty(i) ==
  \A k \in 1..(FirstMarker(BodyOf(i)) - 1) : BodyOf(i)[k] \in WhiteSpace

\* C23: a claim line with an empty core text (nothing after the '-', or only
\* whitespace before the first '|', '@' or '&') gets exactly one
\* EmptyClaimText, is typed Claim, and counts as a claim of the facet it is
\* under: that facet is not reported FacetWithoutClaims.
C23_EmptyClaimStillAClaim ==
  Done =>
    \A i \in DOMAIN lines :
      (ClaimShaped(i) /\ CoreEmpty(i)) =>
        /\ Tag(i) = "Claim"
        /\ lines[i].line_type.claim.text = <<>>
        /\ CountErr(Err("EmptyClaimText", i, <<>>, 0)) = 1
        /\ CountKindAt("EmptyClaimText", i) = 1
        /\ LET p == NearestBefore(i, {"Concept", "Facet"})
           IN (p # 0 /\ Tag(p) = "Facet") => CountKindAt("FacetWithoutClaims", p) = 0

\* A / .f / a claim that is only a condition: EmptyClaimText is the only error
C23_Witness ==
  /\ Done
  /\ Len(lines) = 3
  /\ Tag(1) = "Concept" /\ Tag(2) = "Facet" /\ NameOf(2) = <<"f">>
  /\ ClaimShaped(3) /\ CoreEmpty(3) /\ lines[3].line_type.claim.conditions = << <<"c">> >>
  /\ errors = <<Err("EmptyClaimText", 3, <<>>, 0)>>

(***************************************************************************)
(* The bare "=" operator.                                                  *)
(***************************************************************************)
MaxEqTokens == 3

\* a word; =>, <= and = alone; '=' after '>'; '=' before "=>"; '=' inside a word
EqTokens ==
  {
    <<"x">>,
    <<"=", ">">>,
    <<"<", "=">>,
    <<"=">>,
    <<">", "=">>,
    <<"=", "=", ">">>,
    <<"a", "=", "b">> }

EqInputs == ClaimInputs(EqTokens, MaxEqTokens, <<>>)

InitEq == InitOf(EqInputs)

SpecEq == InitEq /\ [][Next]_vars

TextOf(i) == lines[i].line_type.claim.text

UsagesAt(i) == lines[i].line_type.claim.brief_forms

\* the usages of line i with this operator
UsagesWith(i, op) == {k \in DOMAIN UsagesAt(i) : UsagesAt(i)[k].operator = op}

\* the places of a '=' that has no '<' or '>' right before it and no '>' right
\* after it
BarePlaces(text) ==
  {p \in DOMAIN text :
     /\ text[p] = "="
     /\ ~(p > 1 /\ text[p - 1] \in {"<", ">"})
     /\ ~(p < Len(text) /\ text[p + 1] = ">")}

\* the places at which op stands in text, as a substring
PlacesOf(text, op) ==
  {p \in 1..(Len(text) - Len(op) + 1) : SubSeq(text, p, p + Len(op) - 1) = op}

\* the only operator of the text is one "=>"
OnlyOneCauses(text) ==
  /\ Cardinality(PlacesOf(text, <<"=", ">">>)) = 1
  /\ BarePlaces(text) = {}
  /\ \A op \in OperatorSet \ {<<"=", ">">>, <<"=">>} : PlacesOf(text, op) = {}

\* C24: a usage with operator "=" comes only from a '=' that is not right after
\* '<' or '>' and not right before '>': each such usage carries the tokens
\* around such a '=', there are no more of them than such places, so the '='
\* of "=>" or "<=" adds none; a text whose only operator is one "=>" has
\* exactly one usage.
C24_BareEquals ==
  Done =>
    \A i \in DOMAIN lines :
      Tag(i) = "Claim" =>
        /\ Cardinality(UsagesWith(i, <<"=">>)) <= Cardinality(BarePlaces(TextOf(i)))
        /\ \A k \in UsagesWith(i, <<"=">>) :
             \E p \in BarePlaces(TextOf(i)) :
               /\ UsagesAt(i)[k].left_operand = LastToken(SubSeq(TextOf(i), 1, p - 1))
               /\ UsagesAt(i)[k].right_operand =
                    FirstToken(SubSeq(TextOf(i), p + 1, Len(TextOf(i))))
        /\ OnlyOneCauses(TextOf(i)) =>
             /\ Len(UsagesAt(i)) = 1
             /\ UsagesAt(i)[1].operator = <<"=", ">">>

\* "x => x": one usage; the '=' of "=>" is the only '=' of the text
C24_Witness ==
  /\ Done
  /\ Len(lines) = 3 /\ Tag(3) = "Claim"
  /\ OnlyOneCauses(TextOf(3))
  /\ TextOf(3) = <<"x", " ", "=", ">", " ", "x">>
  /\ UsagesAt(3) = <<BriefFormUsage(<<"=", ">">>, <<"x">>, <<"x">>)>>
  /\ errors = <<>>

(***************************************************************************)
(* Standalone modifier tokens and the usages they yield.                   *)
(***************************************************************************)
MaxGlyphTokens == 3

\* a word; the four glyphs; the letter v; a word ending in v; a word with an
\* attached glyph; an operator; a word ending in an operator
GlyphTokens ==
  {
    <<"x">>,
    <<"^">>,
    <<"!">>,
    <<"?">>,
    <<"*">>,
    <<"v">>,
    <<"x", "v">>,
    <<"x", "^">>,
    <<"=", ">">>,
    <<"r", "e", "v", "s">> }

GlyphInputs == ClaimInputs(GlyphTokens, MaxGlyphTokens, <<>>)

InitGlyph == InitOf(GlyphInputs)

SpecGlyph == InitGlyph /\ [][Next]_vars

ModifiersAt(i) == lines[i].line_type.claim.modifiers

\* how many usages recorded for line i are equal to u
CountUsage(i, u) == Cardinality({k \in DOMAIN ModifiersAt(i) : ModifiersAt(i)[k] = u})

\* t without its trailing '^', 'v', '!', '?' and '*'
RECURSIVE StripGlyphs(_)
StripGlyphs(t) ==
  IF t # <<>> /\ t[Len(t)] \in {"^", "v", "!", "?", "*"}
  THEN StripGlyphs(SubSeq(t, 1, Len(t) - 1)) ELSE t

\* t without every trailing repetition of the character c
RECURSIVE StripChar(_, _)
StripChar(t, c) ==
  IF t # <<>> /\ t[Len(t)] = c THEN StripChar(SubSeq(t, 1, Len(t) - 1), c) ELSE t

\* the glyph tokens of line i that are not first and whose previous token does
\* not end with an operator
AttachableAt(i) ==
  {k \in DOMAIN TokensOf(i) :
     /\ TokensOf(i)[k] \in Glyphs
     /\ k > 1 /\ ~EndsWithOperator(TokensOf(i)[k - 1])}

\* the longer tokens of line i that end with the glyph g
SuffixedAt(i, g) ==
  {k \in DOMAIN TokensOf(i) :
     Len(TokensOf(i)[k]) > 1 /\ TokensOf(i)[k][Len(TokensOf(i)[k])] = g}

\* how many usages (g, t) the tokens of line i call for: one per attachable
\* token g after a token that strips to t, one per longer token t followed by g
UsagesCalledFor(i, g, t) ==
  Cardinality({k \in AttachableAt(i) :
                 TokensOf(i)[k] = <<g>> /\ StripGlyphs(TokensOf(i)[k - 1]) = t})
  + Cardinality({k \in SuffixedAt(i, g) : StripChar(TokensOf(i)[k], g) = t})

\* C25: a token that is exactly ^, !, ? or * yields a ModifierUsage attached to
\* the previous token with its trailing modifier glyphs stripped iff it is not
\* the first token and the previous token does not end with an operator symbol;
\* in the complementary cases, and only then, it yields a StandaloneModifier
\* warning: each such token gives exactly one of the two.
C25_UsageOrWarning ==
  Done =>
    \A i \in DOMAIN lines :
      Tag(i) = "Claim" =>
        /\ \A k \in DOMAIN TokensOf(i) :
             TokensOf(i)[k] \in Glyphs => (k \in AttachableAt(i) <=> k \notin WarnedAt(i))
        /\ \A k \in AttachableAt(i) :
             CountUsage(i, ModifierUsage(TokensOf(i)[k][1], StripGlyphs(TokensOf(i)[k - 1]))) >= 1
        /\ \A m \in DOMAIN ModifiersAt(i) :
             ModifiersAt(i)[m].symbol # "v" =>
               CountUsage(i, ModifiersAt(i)[m]) =
                 UsagesCalledFor(i, ModifiersAt(i)[m].symbol, ModifiersAt(i)[m].attached_to)
        /\ \A g \in Glyphs :
             Cardinality({w \in DOMAIN warnings :
                            warnings[w] = Err("StandaloneModifier", i, g, 0)})
               = Cardinality({k \in WarnedAt(i) : TokensOf(i)[k] = g})
        /\ Cardinality({w \in DOMAIN warnings : warnings[w].line = i})
             = Cardinality(WarnedAt(i))

\* "^ xv !": the first glyph is warned about, the last one is a usage attached
\* to the word before it, stripped of its trailing v
C25_Witness ==
  /\ Done
  /\ Len(lines) = 3 /\ Tag(3) = "Claim"
  /\ TokensOf(3) = << <<"^">>, <<"x", "v">>, <<"!">> >>
  /\ WarnedAt(3) = {1} /\ AttachableAt(3) = {3}
  /\ warnings = <<Err("StandaloneModifier", 3, <<"^">>, 0)>>
  /\ ModifiersAt(3) = <<ModifierUsage("!", <<"x">>)>>

\* t without its trailing '^', '!', '?' and '*'
RECURSIVE StripSymbols(_)
StripSymbols(t) ==
  IF t # <<>> /\ t[Len(t)] \in {"^", "!", "?", "*"}
  THEN StripSymbols(SubSeq(t, 1, Len(t) - 1)) ELSE t

\* what a standalone v is attached to: the previous token stripped of its
\* trailing glyphs, the letter v among them or not
VTarget(t, strip_v) == IF strip_v THEN StripGlyphs(t) ELSE StripSymbols(t)

\* the tokens of line i that are exactly v, not first, and whose previous token
\* does not end with an operator
VAttachableAt(i) ==
  {k \in DOMAIN TokensOf(i) :
     /\ TokensOf(i)[k] = <<"v">>
     /\ k > 1 /\ ~EndsWithOperator(TokensOf(i)[k - 1])}

\* the usages of v are those of its attachable standalone tokens, and no others
VUsagesMatch(strip_v) ==
  Done =>
    \A i \in DOMAIN lines :
      Tag(i) = "Claim" =>
        /\ Cardinality({m \in DOMAIN ModifiersAt(i) : ModifiersAt(i)[m].symbol = "v"})
             = Cardinality(VAttachableAt(i))
        /\ \A k \in VAttachableAt(i) :
             CountUsage(i, ModifierUsage("v", VTarget(TokensOf(i)[k - 1], strip_v)))
               = Cardinality({j \in VAttachableAt(i) :
                                VTarget(TokensOf(i)[j - 1], strip_v)
                                  = VTarget(TokensOf(i)[k - 1], strip_v)})

\* C26 as stated: v yields a usage only as a standalone one-character token,
\* under the attachment condition of the glyphs (not first, previous token not
\* ending with an operator) and with the same attached_to: the previous token
\* with every trailing ^, v, !, ? and * stripped; a word ending in v yields none.
C26_VLikeGlyphs == VUsagesMatch(TRUE)

\* C26 (amended): v yields a usage only as a standalone one-character token,
\* under the attachment condition of the glyphs; its attached_to is the
\* previous token with its trailing ^, !, ? and * stripped, a trailing v being
\* kept; a word ending in v yields none.
C26_VKeepsTrailingV == VUsagesMatch(FALSE)

\* "xv v": the word ending in v yields no usage, the standalone v one usage
\* attached to the whole word
C26_Witness ==
  /\ Done
  /\ Len(lines) = 3 /\ Tag(3) = "Claim"
  /\ TokensOf(3) = << <<"x", "v">>, <<"v">> >>
  /\ ModifiersAt(3) = <<ModifierUsage("v", <<"x", "v">>)>>
  /\ errors = <<>> /\ warnings = <<>>

(***************************************************************************)
(* Error kinds that are declared and never reported.                       *)
(***************************************************************************)
MaxMarkChars == 4

MarkAlphabet == {"x", " ", "\t", "|", "@", "&"}

\* one line: up to MaxMarkChars characters, bare or as the body of a claim
MarkInputs ==
  {p \o b : p \in {<<>>, <<" ", " ", " ", " ", "-">>}, b \in SeqsUpTo(MarkAlphabet, MaxMarkChars)}

InitMark == InitOf(MarkInputs)

SpecMark == InitMark /\ [][Next]_vars

NeverEmittedKinds ==
  {"EmptyConceptName", "EmptyCondition", "EmptySource", "EmptyReference",
   "MalformedEvolutionMarker"}

\* every entry of seq is non-empty and has no whitespace around it
NoBlankEntry(seq) == \A k \in DOMAIN seq : seq[k] # <<>> /\ Trim(seq[k]) = seq[k]

\* C27: validate never reports EmptyConceptName, EmptyCondition, EmptySource,
\* EmptyReference or MalformedEvolutionMarker: no claim holds a blank
\* condition, source or reference (a marker with nothing after it is dropped),
\* and a non-blank line without leading spaces is a Concept with a non-empty
\* name.
C27_NeverEmitted ==
  /\ \A k \in DOMAIN errors : errors[k].kind \notin NeverEmittedKinds
  /\ \A k \in DOMAIN warnings : warnings[k].kind \notin NeverEmittedKinds
  /\ \A i \in DOMAIN lines :
       /\ Tag(i) = "Claim" =>
            /\ NoBlankEntry(lines[i].line_type.claim.conditions)
            /\ NoBlankEntry(lines[i].line_type.claim.sources)
            /\ NoBlankEntry(lines[i].line_type.claim.references)
       /\ (NonBlank(i) /\ LeadingSpaces(lines[i].raw) = 0) =>
            (Tag(i) = "Concept" /\ NameOf(i) # <<>>)

\* the claim "x|@&": the three markers stand alone, nothing is stored for
\* them and nothing is reported but the missing facet
C27_Witness ==
  /\ Done
  /\ Len(lines) = 1 /\ Tag(1) = "Claim"
  /\ BodyOf(1) = <<"x", "|", "@", "&">>
  /\ lines[1].line_type.claim.text = <<"x">>
  /\ lines[1].line_type.claim.conditions = <<>>
  /\ lines[1].line_type.claim.sources = <<>>
  /\ lines[1].line_type.claim.references = <<>>
  /\ errors = <<Err("OrphanClaim", 1, <<>>, 0)>>

(***************************************************************************)
(* Operators as substrings of the claim text.                              *)
(***************************************************************************)
MaxSubTokens == 3

\* a word; a word ending in "vs"; "vs" alone; an operator inside a word; an
\* operator twice in a row; three slashes; a word ending in v; "<=" alone and
\* in an unclosed marker; two operators sharing a character
SubTokens ==
  {
    <<"x">>,
    <<"r", "e", "v", "s">>,
    <<"v", "s">>,
    <<"a", "=", ">", "b">>,
    <<"~", "~">>,
    <<"/", "/", "/">>,
    <<"x", "v">>,
    <<"<", "=">>,
    <<"[", "<", "=">>,
    <<">", "<", ">">> }

SubInputs == ClaimInputs(SubTokens, MaxSubTokens, <<>>)

InitSub == InitOf(SubInputs)

SpecSub == InitSub /\ [][Next]_vars

\* the occurrences of op in text from position from on, taken left to right
\* without overlap
RECURSIVE OccurrencesFrom(_, _, _)
OccurrencesFrom(text, op, from) ==
  LET later == {p \in PlacesOf(text, op) : p >= from}
  IN IF later = {} THEN {}
     ELSE LET p == CHOOSE q \in later : \A r \in later : q <= r
          IN {p} \cup OccurrencesFrom(text, op, p + Len(op))

\* the operands of the occurrence of op at p: the token, or part of a token,
\* ending right before it and the one starting right after it, without their
\* trailing glyphs
UsageOfPlace(text, op, p) ==
  BriefFormUsage(op,
    StripGlyphs(LastToken(SubSeq(text, 1, p - 1))),
    StripGlyphs(FirstToken(SubSeq(text, p + Len(op), Len(text)))))

SubstringOperators == OperatorSet \ {<<"=">>}

\* the usages of op recorded for line i are one per occurrence of op in the
\* text, each with the operands next to the occurrence, and an occurrence with
\* nothing after it is reported BriefFormMissingRightOperand
OccurrencesRecorded(i, op) ==
  LET occ == OccurrencesFrom(TextOf(i), op, 1)
  IN /\ Cardinality(UsagesWith(i, op)) = Cardinality(occ)
     /\ \A p \in occ :
          Cardinality({k \in UsagesWith(i, op) :
                         UsagesAt(i)[k] = UsageOfPlace(TextOf(i), op, p)})
            = Cardinality({q \in occ :
                             UsageOfPlace(TextOf(i), op, q) = UsageOfPlace(TextOf(i), op, p)})
     /\ CountErr(Err("BriefFormMissingRightOperand", i, op, 0))
          = Cardinality({p \in occ : UsageOfPlace(TextOf(i), op, p).right_operand = <<>>})

\* C28 as stated: operators are matched as substrings of the claim text: every
\* non-overlapping occurrence of =>, <=, <>, ><, //, vs or ~ yields one usage
\* with the (possibly partial) tokens next to it as operands; "vs" in or at the
\* end of a word is a usage and, with nothing after it, is reported
\* BriefFormMissingRightOperand.
C28_EveryOccurrence ==
  Done =>
    \A i \in DOMAIN lines :
      Tag(i) = "Claim" => \A op \in SubstringOperators : OccurrencesRecorded(i, op)

\* C28 (amended): the same, but for "<=" only in a text that does not contain
\* "[<="; in a text that contains it no occurrence of "<=" yields a usage.
C28_EveryOccurrenceButInMarker ==
  Done =>
    \A i \in DOMAIN lines :
      Tag(i) = "Claim" =>
        \A op \in SubstringOperators :
          IF op = <<"<", "=">> /\ PlacesOf(TextOf(i), EVO_OPEN) # {}
          THEN UsagesWith(i, op) = {}
          ELSE OccurrencesRecorded(i, op)

\* "revs": the letters vs at the end of the word are a usage with left operand
\* "re" and nothing on the right
C28_Witness ==
  /\ Done
  /\ Len(lines) = 3 /\ Tag(3) = "Claim"
  /\ TextOf(3) = <<"r", "e", "v", "s">>
  /\ UsagesAt(3) = <<BriefFormUsage(<<"v", "s">>, <<"r", "e">>, <<>>)>>
  /\ errors = <<Err("BriefFormMissingRightOperand", 3, <<"v", "s">>, 0)>>

(***************************************************************************)
(* "<=" in a text that still holds a marker opening.                       *)
(***************************************************************************)
\* the errors of line i that name the operator op
OperandErrorsFor(i, op) ==
  {k \in DOMAIN errors :
     /\ errors[k].line = i /\ errors[k].arg = op
     /\ errors[k].kind \in {"BriefFormMissingLeftOperand", "BriefFormMissingRightOperand"}}

MarkerLeftAfterExtraction ==
  /\ Done
  /\ Len(lines) = 3 /\ Tag(3) = "Claim"
  /\ lines[3].line_type.claim.evolution.present
  /\ PlacesOf(TextOf(3), EVO_OPEN) # {}
  /\ UsagesAt(3) = <<>>

(***************************************************************************)
(* Empty and all-blank documents.                                          *)
(***************************************************************************)
\* the text has no line, or only lines that are empty or whitespace
AllBlank(text) == \A k \in DOMAIN text : text[k] \in WhiteSpace \cup {"\n"}

\* validate's result for the document in hand is the empty result
BlankResult ==
  /\ errors = <<>>
  /\ warnings = <<>>
  /\ is_valid /\ ~has_warnings
  /\ \A i \in DOMAIN lines : lines[i].line_type = Blank

\* C30: a document with no line, or with only empty and whitespace-only
\* lines, has no errors, no warnings and only Blank lines, so an edit that
\* results in such a document is accepted: it is written to the file and the
\* call answers that the edits were applied.
C30_BlankDocumentAccepted ==
  /\ [](AllBlank(input) => BlankResult)
  /\ [][(pc = "done" /\ AllBlank(input)) =>
          /\ file' = [exists |-> TRUE, content |-> input]
          /\ response'.kind = "applied"]_vars

\* a first call wrote the empty document
EmptyDocumentWritten ==
  /\ pc = "idle"
  /\ calls = 1
  /\ response.kind = "applied"
  /\ file.exists /\ file.content = <<>>

\* a second call has just written a document of two whitespace-only lines
C30_Witness ==
  /\ pc = "idle"
  /\ calls = 2
  /\ response.kind = "applied"
  /\ file.exists
  /\ file.content = <<" ", "\n", "\t", "\n">>

====
